---- MODULE Spec2Model ----
(***************************************************************************)
(* A model of the storage-sentinel agent: the cloud-schedule store and the *)
(* scheduler's effective interval, the notifier (debounce, queue, delivery *)
(* worker with backoff), the scheduler's command queue and processor, and  *)
(* the uplink's retrying sender.                                           *)
(*                                                                         *)
(* Time is counted in whole seconds (the store keeps datetime('now') and   *)
(* unix timestamps at one-second resolution; every duration of the code    *)
(* that the model uses is a whole number of seconds).  Text that the code  *)
(* parses is a sequence of one-character strings.                          *)
(***************************************************************************)
EXTENDS Integers, Sequences, FiniteSets, TLC

VARIABLES
    now,                \* the wall clock, seconds
    cloud_schedules,    \* table cloud_schedules: a set of rows, at most one per id
    effReturn,          \* what getEffectiveInterval has just returned to its loop
    cfg,                \* the notifier's configuration (channels, debounce, minSeverity)
    alerts,             \* table alerts: row i has id i
    notification_queue, \* table notification_queue: row i has id i
    lastSent,           \* Notifier.lastSent: debounce key -> time.Unix(ts)
    entries,            \* the batch the delivery worker fetched and has not yet handled
    sendLog,            \* per queue id, the retry delays the worker scheduled so far
    handled,            \* the alert Notifier.Send has just handled
    svc,                \* which collectors the Scheduler was constructed with (non-nil)
    commandQueue,       \* Scheduler.commandQueue: the buffered channel's content
    pollPending,        \* runCommandPollLoop: the polled commands its loop has yet to offer
    issued,             \* how many commands the cloud has handed out so far
    proc,               \* runCommandProcessor: idle, or where processCommand stands
    enqLog,             \* ids of the commands that entered the queue, in order
    deqLog,             \* ids of the commands the processor received, in order
    dropLog,            \* the commands dropped: id and the queue length met
    ackIds,             \* ids of the AcknowledgeCommand calls, in order
    lastAck,            \* the latest AcknowledgeCommand call and what preceded it
    ctxDone,            \* the context of sendWithRetry: cancelled, and where the call stood
    snd,                \* sendWithRetry: idle, or the locals of the call in progress
    httpLog,            \* the HTTP attempts of the call: outcome and the wait before it
    waits,              \* the durations the call has waited out so far
    zfs_pool_devices,   \* table zfs_pool_devices: a set of rows (pool_name, disk_id, vdev_type)
    upsert,             \* UpsertPoolDevices: idle, or the call in progress
    observed,           \* what GetPoolDevices has just returned to a reader
    applied,            \* StoreSchedules: the call in progress and the application before it
    smart_snapshots,    \* table smart_snapshots: a set of rows (disk_id, timestamp)
    nvme_snapshots,     \* table nvme_snapshots: a set of rows (disk_id, timestamp)
    disks,              \* table disks: the ids of the discovered disks
    zfs_scrub_history,  \* table zfs_scrub_history: a set of rows (pool_name, start_time)
    prune,              \* PruneOldSnapshots: idle, or the call in progress or returned
    ackApi,             \* the alerts API: what AddAlert was given, and the latest response
    evaluated,          \* the health evaluator's latest input and report
    discovery,          \* the discovery service: its configuration and its latest pass
    senders,            \* per dispatching loop, where its Notifier.Send call stands
    loop,               \* one schedule-aware loop: its ticker, and its latest body executions
    shutdown,           \* the goroutines' positions around the cancellation of the root context
    start,              \* Scheduler.Start: the statement it stands at, what it did, and the loops' first runs
    tests,              \* the SMART self-test scheduler: table smart_test_schedule and the tests it started
    zfs_pools,          \* table zfs_pools: a set of rows, at most one per name
    scrubber,           \* the scrub scheduler: its configuration and the scrubs it triggered
    collecting,         \* the collection goroutines: where each Collect call stands, and the snapshot inserts in order
    reading,            \* one evaluation of a disk beside a collector: the snapshot rows and what the two reads returned
    delivery,           \* the delivery worker beside a failing store: the sends it made, and how each ended
    fair,               \* the delivery worker followed without end: the queue with times relative to the present, the batch, and the channels that accept
    dispatch,           \* dispatchHealth: where its Notifier.Send call stands in the report's alerts
    polled,             \* the response of the latest successful schedule poll
    cron                \* the scrub scheduler's NextCronTime call and its outcome

schedVars == <<cloud_schedules, effReturn>>
notifVars == <<cfg, alerts, notification_queue, lastSent, entries, sendLog, handled>>
cmdVars == <<svc, commandQueue, pollPending, issued, proc, enqLog, deqLog, dropLog,
             ackIds, lastAck>>
retryVars == <<ctxDone, snd, httpLog, waits>>
poolVars == <<zfs_pool_devices, upsert, observed>>
pruneVars == <<smart_snapshots, nvme_snapshots, disks, zfs_scrub_history, prune>>
agentVars == <<discovery, senders, loop, shutdown, start, tests, zfs_pools, scrubber, collecting, reading, delivery, fair, dispatch, polled, cron>>
storeVars == <<poolVars, applied, pruneVars, ackApi, evaluated, agentVars>>
\* the store's variables that the actions on one part of it leave alone
othersOfPool == <<applied, pruneVars, ackApi, evaluated, agentVars>>
othersOfApplied == <<poolVars, pruneVars, ackApi, evaluated, agentVars>>
othersOfPrune == <<poolVars, applied, ackApi, evaluated, agentVars>>
othersOfAckApi == <<poolVars, applied, pruneVars, evaluated, agentVars>>
othersOfEvaluated == <<poolVars, applied, pruneVars, ackApi, agentVars>>
restOfAgent_discovery == <<senders, loop, shutdown, start, tests, zfs_pools, scrubber, collecting, reading, delivery, fair, dispatch, polled, cron>>
restOfAgent_senders == <<discovery, loop, shutdown, start, tests, zfs_pools, scrubber, collecting, reading, delivery, fair, dispatch, polled, cron>>
restOfAgent_loop == <<discovery, senders, shutdown, start, tests, zfs_pools, scrubber, collecting, reading, delivery, fair, dispatch, polled, cron>>
restOfAgent_shutdown == <<discovery, senders, loop, start, tests, zfs_pools, scrubber, collecting, reading, delivery, fair, dispatch, polled, cron>>
restOfAgent_start == <<discovery, senders, loop, shutdown, tests, zfs_pools, scrubber, collecting, reading, delivery, fair, dispatch, polled, cron>>
restOfAgent_tests == <<discovery, senders, loop, shutdown, start, zfs_pools, scrubber, collecting, reading, delivery, fair, dispatch, polled, cron>>
restOfAgent_zfs_pools == <<discovery, senders, loop, shutdown, start, tests, scrubber, collecting, reading, delivery, fair, dispatch, polled, cron>>
restOfAgent_scrubber == <<discovery, senders, loop, shutdown, start, tests, zfs_pools, collecting, reading, delivery, fair, dispatch, polled, cron>>
restOfAgent_collecting == <<discovery, senders, loop, shutdown, start, tests, zfs_pools, scrubber, reading, delivery, fair, dispatch, polled, cron>>
restOfAgent_reading == <<discovery, senders, loop, shutdown, start, tests, zfs_pools, scrubber, collecting, delivery, fair, dispatch, polled, cron>>
restOfAgent_delivery == <<discovery, senders, loop, shutdown, start, tests, zfs_pools, scrubber, collecting, reading, fair, dispatch, polled, cron>>
restOfAgent_fair == <<discovery, senders, loop, shutdown, start, tests, zfs_pools, scrubber, collecting, reading, delivery, dispatch, polled, cron>>
restOfAgent_dispatch == <<discovery, senders, loop, shutdown, start, tests, zfs_pools, scrubber, collecting, reading, delivery, fair, polled, cron>>
restOfAgent_polled == <<discovery, senders, loop, shutdown, start, tests, zfs_pools, scrubber, collecting, reading, delivery, fair, dispatch, cron>>
restOfAgent_cron == <<discovery, senders, loop, shutdown, start, tests, zfs_pools, scrubber, collecting, reading, delivery, fair, dispatch, polled>>
othersOfAgent_discovery == <<poolVars, applied, pruneVars, ackApi, evaluated, senders, loop, shutdown, start, tests, zfs_pools, scrubber, collecting, reading, delivery, fair, dispatch, polled, cron>>
othersOfAgent_senders == <<poolVars, applied, pruneVars, ackApi, evaluated, discovery, loop, shutdown, start, tests, zfs_pools, scrubber, collecting, reading, delivery, fair, dispatch, polled, cron>>
othersOfAgent_loop == <<poolVars, applied, pruneVars, ackApi, evaluated, discovery, senders, shutdown, start, tests, zfs_pools, scrubber, collecting, reading, delivery, fair, dispatch, polled, cron>>
othersOfAgent_shutdown == <<poolVars, applied, pruneVars, ackApi, evaluated, discovery, senders, loop, start, tests, zfs_pools, scrubber, collecting, reading, delivery, fair, dispatch, polled, cron>>
othersOfAgent_start == <<poolVars, applied, pruneVars, ackApi, evaluated, discovery, senders, loop, shutdown, tests, zfs_pools, scrubber, collecting, reading, delivery, fair, dispatch, polled, cron>>
othersOfAgent_tests == <<poolVars, applied, pruneVars, ackApi, evaluated, discovery, senders, loop, shutdown, start, zfs_pools, scrubber, collecting, reading, delivery, fair, dispatch, polled, cron>>
othersOfAgent_zfs_pools == <<poolVars, applied, pruneVars, ackApi, evaluated, discovery, senders, loop, shutdown, start, tests, scrubber, collecting, reading, delivery, fair, dispatch, polled, cron>>
othersOfAgent_scrubber == <<poolVars, applied, pruneVars, ackApi, evaluated, discovery, senders, loop, shutdown, start, tests, zfs_pools, collecting, reading, delivery, fair, dispatch, polled, cron>>
othersOfAgent_collecting == <<poolVars, applied, pruneVars, ackApi, evaluated, discovery, senders, loop, shutdown, start, tests, zfs_pools, scrubber, reading, delivery, fair, dispatch, polled, cron>>
othersOfAgent_reading == <<poolVars, applied, pruneVars, ackApi, evaluated, discovery, senders, loop, shutdown, start, tests, zfs_pools, scrubber, collecting, delivery, fair, dispatch, polled, cron>>
othersOfAgent_delivery == <<poolVars, applied, pruneVars, ackApi, evaluated, discovery, senders, loop, shutdown, start, tests, zfs_pools, scrubber, collecting, reading, fair, dispatch, polled, cron>>
othersOfAgent_fair == <<poolVars, applied, pruneVars, ackApi, evaluated, discovery, senders, loop, shutdown, start, tests, zfs_pools, scrubber, collecting, reading, delivery, dispatch, polled, cron>>
othersOfAgent_dispatch == <<poolVars, applied, pruneVars, ackApi, evaluated, discovery, senders, loop, shutdown, start, tests, zfs_pools, scrubber, collecting, reading, delivery, fair, polled, cron>>
othersOfAgent_polled == <<poolVars, applied, pruneVars, ackApi, evaluated, discovery, senders, loop, shutdown, start, tests, zfs_pools, scrubber, collecting, reading, delivery, fair, dispatch, cron>>
othersOfAgent_cron == <<poolVars, applied, pruneVars, ackApi, evaluated, discovery, senders, loop, shutdown, start, tests, zfs_pools, scrubber, collecting, reading, delivery, fair, dispatch, polled>>
vars == <<now, schedVars, notifVars, cmdVars, retryVars, storeVars>>

\* ------------------------------------------------------------------ bounds
MaxNow == 1

\* ------------------------------------------------------------------ time
Second == 1
Minute == 60 * Second
Hour == 60 * Minute
Day == 24 * Hour

Nil == [nil |-> TRUE]

MinOf(S) == CHOOSE x \in S : \A y \in S : x <= y
MaxOf(S) == CHOOSE x \in S : \A y \in S : x >= y

\* ------------------------------------------------------- scheduler/cron.go
Digits == {"0", "1", "2", "3", "4", "5", "6", "7", "8", "9"}

DigitVal(c) ==
    CASE c = "0" -> 0 [] c = "1" -> 1 [] c = "2" -> 2 [] c = "3" -> 3
      [] c = "4" -> 4 [] c = "5" -> 5 [] c = "6" -> 6 [] c = "7" -> 7
      [] c = "8" -> 8 [] c = "9" -> 9

RECURSIVE Atoi(_)
Atoi(ds) ==
    IF ds = <<>> THEN 0
    ELSE Atoi(SubSeq(ds, 1, Len(ds) - 1)) * 10 + DigitVal(ds[Len(ds)])

\* the switch on the unit letter
UnitDuration(u) ==
    CASE u = "s" -> Second [] u = "m" -> Minute [] u = "h" -> Hour [] u = "d" -> Day

\* ParseInterval: the text must match ^(\d+)([smhd])$
ParseInterval(interval) ==
    LET n == Len(interval) IN
    IF /\ n >= 2
       /\ \A i \in 1..(n - 1) : interval[i] \in Digits
       /\ interval[n] \in {"s", "m", "h", "d"}
    THEN [ok |-> TRUE,
          duration |-> Atoi(SubSeq(interval, 1, n - 1)) * UnitDuration(interval[n])]
    ELSE [ok |-> FALSE, duration |-> 0]

\* ----------------------------------------------- storage: cloud_schedules
\* INSERT ... ON CONFLICT(id) DO UPDATE, updated_at = datetime('now')
UpsertScheduleInsertOnly(table, s, t) ==
    table \cup
    {[id |-> s.id, task_type |-> s.task_type, schedule_type |-> s.schedule_type,
      schedule_value |-> s.schedule_value, enabled |-> s.enabled, updated_at |-> t]}

UpsertSchedule(table, s, t) ==
    {r \in table : r.id # s.id} \cup
    {[id |-> s.id, task_type |-> s.task_type, schedule_type |-> s.schedule_type,
      schedule_value |-> s.schedule_value, enabled |-> s.enabled, updated_at |-> t]}

RECURSIVE StoreSchedules(_, _, _)
StoreSchedules(table, schedules, t) ==
    IF schedules = <<>> THEN table
    ELSE StoreSchedules(UpsertSchedule(table, Head(schedules), t), Tail(schedules), t)

\* WHERE task_type = ? AND enabled = 1 ORDER BY updated_at DESC LIMIT 1:
\* the rows the query can return (rows of equal updated_at come in an order
\* SQL leaves open); the empty set stands for sql.ErrNoRows, a nil schedule.
GetScheduleForTask(table, taskType) ==
    LET rows == {r \in table : r.task_type = taskType /\ r.enabled} IN
    {r \in rows : \A o \in rows : o.updated_at <= r.updated_at}

\* ------------------------------------------------ scheduler/scheduler.go
CronCheckInterval == 1 * Minute

getEffectiveIntervalNoMin(cloudSchedule, configInterval) ==
    IF cloudSchedule = Nil \/ ~cloudSchedule.enabled THEN configInterval
    ELSE IF cloudSchedule.schedule_type = "INTERVAL"
         THEN LET p == ParseInterval(cloudSchedule.schedule_value) IN
              IF ~p.ok THEN configInterval ELSE p.duration
    ELSE IF cloudSchedule.schedule_type = "CRON" THEN CronCheckInterval
    ELSE configInterval

\* getEffectiveInterval, given the row GetScheduleForTask returned (or Nil)
getEffectiveInterval(cloudSchedule, configInterval) ==
    IF cloudSchedule = Nil \/ ~cloudSchedule.enabled THEN configInterval
    ELSE LET kind == cloudSchedule.schedule_type
             p == ParseInterval(cloudSchedule.schedule_value)
         IN  IF kind = "INTERVAL" /\ ~p.ok THEN configInterval
             ELSE IF kind \notin {"INTERVAL", "CRON"} THEN configInterval
             ELSE LET cloudInterval ==
                          IF kind = "INTERVAL" THEN p.duration ELSE CronCheckInterval
                  IN  IF cloudInterval < configInterval THEN cloudInterval
                      ELSE configInterval

\* ---------------------------------------------------- inputs (schedules)
TaskTypes == {"ZFS_SCRUB", "SMART_COLLECT"}
ScheduleIds == {"s1", "s2"}

\* schedule type, schedule value and enabled flag of the schedules the cloud sends
ScheduleKinds ==
    { [schedule_type |-> "INTERVAL", schedule_value |-> <<"3", "0", "s">>, enabled |-> TRUE],
      [schedule_type |-> "INTERVAL", schedule_value |-> <<"2", "m">>, enabled |-> TRUE],
      [schedule_type |-> "INTERVAL", schedule_value |-> <<"x", "5">>, enabled |-> TRUE],
      [schedule_type |-> "CRON", schedule_value |-> <<"*", " ", "*", " ", "*", " ", "*", " ", "*">>,
       enabled |-> TRUE],
      [schedule_type |-> "WEEKLY", schedule_value |-> <<"1", "d">>, enabled |-> TRUE],
      [schedule_type |-> "INTERVAL", schedule_value |-> <<"3", "0", "s">>, enabled |-> FALSE] }

CloudScheduleInputs ==
    { [id |-> i, task_type |-> t, schedule_type |-> k.schedule_type,
       schedule_value |-> k.schedule_value, enabled |-> k.enabled] :
      i \in ScheduleIds, t \in TaskTypes, k \in ScheduleKinds }

\* the responses of a schedule poll: no schedule, one, or two of distinct ids
PollResponses ==
    {<<>>} \cup {<<a>> : a \in CloudScheduleInputs} \cup
    {<<a, b>> : a \in {x \in CloudScheduleInputs : x.id = "s1"},
                b \in {x \in CloudScheduleInputs : x.id = "s2"}}

ConfigIntervals == {0, 30 * Second, Minute, Hour}

NoReturn == [called |-> FALSE]

\* ------------------------------------------------------ notifier/notifier.go
NULL == 0 - 1          \* SQL NULL in a timestamp column

\* strings.ToLower on the severities and minimum severities that occur
ToLower(s) ==
    CASE s = "Info" -> "info" [] s = "WARNING" -> "warning" [] OTHER -> s

\* order := map[string]int{"info": 1, "warning": 2, "critical": 3}; a missing key reads 0
SeverityOrder(s) ==
    CASE s = "info" -> 1 [] s = "warning" -> 2 [] s = "critical" -> 3 [] OTHER -> 0

allowed(minSeverity, sev) == SeverityOrder(ToLower(sev)) >= SeverityOrder(minSeverity)

AlertKey(alert) == alert.source_type \o ":" \o alert.source_id \o ":" \o alert.subject

isDebouncedInclusive(last, key, ts, debounce) ==
    IF key \notin DOMAIN last THEN FALSE ELSE ts - last[key] <= debounce

\* isDebounced: time.Unix(ts, 0).Sub(last) < n.debounce
isDebounced(last, key, ts, debounce) ==
    IF key \notin DOMAIN last THEN FALSE ELSE ts - last[key] < debounce

\* markSent: n.lastSent[key] = time.Unix(ts, 0)
markSent(last, key, ts) ==
    [k \in DOMAIN last \cup {key} |-> IF k = key THEN ts ELSE last[k]]

\* the channels Send queues an alert for: "email" if enabled, then one
\* "webhook:<name>" per configured webhook whose URL is not empty
RECURSIVE WebhookChannels(_)
WebhookChannels(webhooks) ==
    IF webhooks = <<>> THEN <<>>
    ELSE (IF Head(webhooks).url # "" THEN <<"webhook:" \o Head(webhooks).name>> ELSE <<>>)
         \o WebhookChannels(Tail(webhooks))

EnabledChannelsAnyUrl(c) ==
    (IF c.email_enabled THEN <<"email">> ELSE <<>>)
    \o [k \in DOMAIN c.webhooks |-> "webhook:" \o c.webhooks[k].name]

EnabledChannels(c) ==
    (IF c.email_enabled THEN <<"email">> ELSE <<>>) \o WebhookChannels(c.webhooks)

\* the backoffs slice of calculateNextRetry
backoffs == <<1 * Minute, 5 * Minute, 15 * Minute, 1 * Hour, 6 * Hour, 24 * Hour>>

calculateNextRetryOffByOne(attempts, t) ==
    LET idx == IF attempts + 1 >= Len(backoffs) THEN Len(backoffs) - 1 ELSE attempts + 1
    IN  t + backoffs[idx + 1]

\* calculateNextRetry(attempts) at time t; the slice is indexed from 0 in the code
calculateNextRetry(attempts, t) ==
    LET idx == IF attempts >= Len(backoffs) THEN Len(backoffs) - 1 ELSE attempts
    IN  t + backoffs[idx + 1]

\* ------------------------------------- storage: alerts, notification_queue
\* AddAlert: INSERT INTO alerts; the new row's id is returned
AddAlert(table, a) ==
    Append(table, [timestamp |-> a.timestamp, severity |-> a.severity,
                   source_type |-> a.source_type, source_id |-> a.source_id,
                   subject |-> a.subject, acknowledged |-> FALSE])

\* EnqueueNotification: status 'pending', next_retry = datetime('now'),
\* attempts DEFAULT 0, created_at DEFAULT CURRENT_TIMESTAMP
EnqueueNotification(queue, alertID, channel, t) ==
    Append(queue, [alert_id |-> alertID, channel |-> channel, status |-> "pending",
                   attempts |-> 0, last_attempt |-> NULL, next_retry |-> t,
                   error_message |-> "", created_at |-> t, sent_at |-> NULL])

RECURSIVE EnqueueAll(_, _, _, _)
EnqueueAll(queue, alertID, channels, t) ==
    IF channels = <<>> THEN queue
    ELSE EnqueueAll(EnqueueNotification(queue, alertID, Head(channels), t),
                    alertID, Tail(channels), t)

BatchLimit == 50

PendingIdsAnyStatus(queue, t) ==
    {i \in DOMAIN queue : queue[i].next_retry = NULL \/ queue[i].next_retry <= t}

PendingIdsIgnoringRetry(queue, t) ==
    {i \in DOMAIN queue : queue[i].status = "pending"}

\* WHERE status = 'pending' AND (next_retry IS NULL OR next_retry <= datetime('now'))
PendingIds(queue, t) ==
    {i \in DOMAIN queue :
        /\ queue[i].status = "pending"
        /\ (queue[i].next_retry = NULL \/ queue[i].next_retry <= t)}

\* the row as rows.Scan reads it into a NotificationQueueEntry
QueueEntry(queue, i) ==
    [id |-> i, alert_id |-> queue[i].alert_id, channel |-> queue[i].channel,
     status |-> queue[i].status, attempts |-> queue[i].attempts,
     next_retry |-> queue[i].next_retry, created_at |-> queue[i].created_at]

\* GetPendingNotifications(limit): the lists the query can return, ORDER BY
\* created_at ASC LIMIT ? (rows of equal created_at come in an order SQL leaves open)
GetPendingNotifications(queue, limit, t) ==
    LET ids == PendingIds(queue, t)
        n == IF Cardinality(ids) < limit THEN Cardinality(ids) ELSE limit
    IN  { [k \in 1..n |-> QueueEntry(queue, f[k])] :
          f \in { g \in [1..n -> ids] :
                    /\ \A a, b \in 1..n : a # b => g[a] # g[b]
                    /\ \A a, b \in 1..n : a < b => queue[g[a]].created_at <= queue[g[b]].created_at
                    /\ \A a \in 1..n : \A o \in ids :
                           (\A b \in 1..n : g[b] # o) =>
                               queue[g[a]].created_at <= queue[o].created_at } }

MarkNotificationSentKeepRetry(queue, queueID, t) ==
    [queue EXCEPT ![queueID].status = "sent", ![queueID].sent_at = t,
                  ![queueID].attempts = @ + 1]

\* MarkNotificationSent: status = 'sent', sent_at = datetime('now'), next_retry = NULL
MarkNotificationSent(queue, queueID, t) ==
    [queue EXCEPT ![queueID].status = "sent", ![queueID].sent_at = t,
                  ![queueID].next_retry = NULL]

\* MarkNotificationFailed: status = 'pending', attempts = attempts + 1,
\* last_attempt = datetime('now'), next_retry = nextRetry, error_message = errorMsg
MarkNotificationFailed(queue, queueID, errorMsg, nextRetry, t) ==
    [queue EXCEPT ![queueID].status = "pending", ![queueID].attempts = @ + 1,
                  ![queueID].last_attempt = t, ![queueID].next_retry = nextRetry,
                  ![queueID].error_message = errorMsg]

\* ------------------------------------------------------ inputs (notifier)
DebounceWindow == 60
\* alert rows the notifier persists, and queue rows, in one run
MaxAlerts == 2
MaxQueue == 2
\* failed deliveries in one run
MaxFailures == 2
\* alert rows, and failed deliveries, in a run that follows one entry's retries
MaxBackoffAlerts == 1
MaxBackoffFailures == 7
\* up to here the clock also moves by single ticker periods
MaxFineClock == 60

\* the delivery worker's ticker
TickerPeriod == 30

NotifierConfigs ==
    { [minSeverity |-> ToLower("warning"), debounce |-> DebounceWindow, email_enabled |-> TRUE,
       webhooks |-> <<[name |-> "ops", url |-> "http://ops"]>>],
      [minSeverity |-> ToLower("Info"), debounce |-> DebounceWindow, email_enabled |-> FALSE,
       webhooks |-> <<[name |-> "ops", url |-> "http://ops"], [name |-> "off", url |-> ""]>>],
      [minSeverity |-> ToLower("warning"), debounce |-> 0, email_enabled |-> FALSE,
       webhooks |-> <<>>] }

DefaultNotifierConfig ==
    [minSeverity |-> "warning", debounce |-> DebounceWindow, email_enabled |-> FALSE,
     webhooks |-> <<>>]

\* the alerts a health evaluation made at time t hands to Send
AlertInputs(t) ==
    { [timestamp |-> t, severity |-> a[1], source_type |-> "disk", source_id |-> a[2],
       subject |-> "Critical temperature"] :
      a \in {<<"critical", "sda">>, <<"critical", "sdb">>, <<"info", "sda">>} }

NoAlert == [none |-> TRUE]

TotalFailures == LET RECURSIVE Sum(_)
                     Sum(i) == IF i = 0 THEN 0 ELSE Len(sendLog[i]) + Sum(i - 1)
                 IN  Sum(Len(sendLog))

\* ------------------------------------------- scheduler: the command queue
\* make(chan uplink.Command, 10)
QueueCap == 10

\* commands the cloud hands out in one run, and in one poll response
MaxCmds == 12
MaxBatch == 4

\* select { case s.commandQueue <- cmd: default: }: the send happens if the
\* buffer has room, otherwise the default branch is taken
TrySendUnbounded(queue, cmd, cap) ==
    [sent |-> TRUE, queue |-> Append(queue, cmd)]

\* a channel send that reports success to the poll loop without the command
\* reaching the buffer when only one place is left
TrySendLossy(queue, cmd, cap) ==
    IF Len(queue) < cap - 1
    THEN [sent |-> TRUE, queue |-> Append(queue, cmd)]
    ELSE [sent |-> Len(queue) < cap, queue |-> queue]

TrySend(queue, cmd, cap) ==
    IF Len(queue) < cap
    THEN [sent |-> TRUE, queue |-> Append(queue, cmd)]
    ELSE [sent |-> FALSE, queue |-> queue]

\* cmd := <-s.commandQueue: a buffered channel hands out its oldest element
RecvNewest(queue) ==
    [cmd |-> queue[Len(queue)], queue |-> SubSeq(queue, 1, Len(queue) - 1)]

Recv(queue) ==
    [cmd |-> Head(queue), queue |-> Tail(queue)]

\* Command.Params, a json.RawMessage: absent, a JSON object (with or without a
\* string member pool_name), or text that is not JSON
NoParams == [raw |-> "empty", has_pool_name |-> FALSE, pool_name |-> ""]
ObjectParams(p) == [raw |-> "object", has_pool_name |-> TRUE, pool_name |-> p]
EmptyObjectParams == [raw |-> "object", has_pool_name |-> FALSE, pool_name |-> ""]
TruncatedParams == [raw |-> "truncated", has_pool_name |-> FALSE, pool_name |-> ""]

\* json.Unmarshal(cmd.Params, &params) into struct{ PoolName string }
Unmarshal(params) ==
    CASE params.raw = "object" ->
             [err |-> "", PoolName |-> IF params.has_pool_name THEN params.pool_name ELSE ""]
      [] params.raw = "empty" -> [err |-> "unexpected end of JSON input", PoolName |-> ""]
      [] OTHER -> [err |-> "invalid character", PoolName |-> ""]

\* the commands the cloud hands out, by issue number; the number is the id
CommandKinds ==
    << [type |-> "trigger_scrub", params |-> ObjectParams("tank")],
       [type |-> "reboot", params |-> NoParams],
       [type |-> "collect_smart", params |-> NoParams],
       [type |-> "trigger_scrub", params |-> TruncatedParams],
       [type |-> "collect_zfs", params |-> NoParams],
       [type |-> "collect_nvme", params |-> NoParams],
       [type |-> "trigger_scrub", params |-> NoParams] >>

CommandOf(n) ==
    LET k == CommandKinds[((n - 1) % Len(CommandKinds)) + 1] IN
    [id |-> n, type |-> k.type, params |-> k.params]

\* the Scheduler's collectors: TRUE where New was given a non-nil collector
Collectors ==
    { [zfs |-> TRUE, smart |-> TRUE, nvme |-> TRUE],
      [zfs |-> FALSE, smart |-> TRUE, nvme |-> FALSE],
      [zfs |-> TRUE, smart |-> FALSE, nvme |-> TRUE] }

\* the error of an external call: "" stands for nil
ExecErrors == {"", "exit status 1"}
StoreErrors == {"", "database is locked"}

Call(fn, arg, err) == [fn |-> fn, arg |-> arg, err |-> err]

\* the result of running a collector method that returned err, after calls before
Ran(before, fn, arg, err) ==
    [success |-> (err = ""), errorMsg |-> err, calls |-> Append(before, Call(fn, arg, err))]

Failed(before, errorMsg) ==
    [success |-> FALSE, errorMsg |-> errorMsg, calls |-> before]

\* store.ListDisks followed by collector.Collect(ctx, disks)
CollectDisks(available, fn, missing) ==
    UNION { IF lerr # ""
            THEN {Failed(<<Call("store.ListDisks", "", lerr)>>, lerr)}
            ELSE IF available
                 THEN {Ran(<<Call("store.ListDisks", "", "")>>, fn, "disks", err) :
                          err \in ExecErrors}
                 ELSE {Failed(<<Call("store.ListDisks", "", "")>>, missing)}
          : lerr \in StoreErrors }

\* processCommand up to its acknowledgement: the possible values of success and
\* errorMsg and the calls made, for the outcomes the external calls can have
processCommand(cmd, s) ==
    CASE cmd.type = "trigger_scrub" ->
             LET u == Unmarshal(cmd.params) IN
             IF u.err # ""
             THEN {Failed(<<>>, "invalid params: " \o u.err)}
             ELSE IF s.zfs
                  THEN {Ran(<<>>, "zfs.TriggerScrub", u.PoolName, err) : err \in ExecErrors}
                  ELSE {Failed(<<>>, "ZFS collector not available")}
      [] cmd.type = "collect_smart" ->
             CollectDisks(s.smart, "smart.Collect", "SMART collector not available")
      [] cmd.type = "collect_nvme" ->
             CollectDisks(s.nvme, "nvme.Collect", "NVMe collector not available")
      [] cmd.type = "collect_zfs" ->
             IF s.zfs
             THEN {Ran(<<>>, "zfs.Collect", "", err) : err \in ExecErrors}
             ELSE {Failed(<<>>, "ZFS collector not available")}
      [] OTHER -> {Failed(<<>>, "unknown command type: " \o cmd.type)}

\* Client.AcknowledgeCommand: the request it posts to /commands/<id>/ack; the
\* member "error" is left out of the payload when errorMsg is empty
AcknowledgeCommandNoError(commandID, success, errorMsg) ==
    [id |-> commandID, success |-> success, has_error |-> FALSE, error |-> ""]

AcknowledgeCommand(commandID, success, errorMsg) ==
    [id |-> commandID, success |-> success, has_error |-> (errorMsg # ""),
     error |-> errorMsg]

Idle == [pc |-> "idle"]
NoAck == [none |-> TRUE]

\* ------------------------------------------------- uplink: sendWithRetry
\* SendSummary and SendFullSnapshot call sendWithRetry with maxRetries = 3
MaxRetries == 3

\* backoff *= 2 after a wait that the timer ended
DoubleBackoffFlat(backoff) == backoff

DoubleBackoff(backoff) == backoff * 2

\* select { case <-ctx.Done(): ...; case <-time.After(backoff): ... }: the timer,
\* created on entry with a positive duration, is not ready on entry, so a
\* context that is done on entry or becomes done during the wait ends the wait
WaitOutcomeTimerOnly(done) == "timer"

WaitOutcome(done) == IF done THEN "ctx" ELSE "timer"

\* what client.Do can give: a 2xx response, another response, or an error; with
\* a cancelled context it gives an error
HTTPOutcomes(done) == IF done THEN {"neterr"} ELSE {"2xx", "status", "neterr"}

\* the error sendWithRetry keeps for an attempt that did not end in 2xx
AttemptError(outcome) ==
    CASE outcome = "status" -> "unexpected status"
      [] outcome = "neterr" -> "send request"
      [] outcome = "reqerr" -> "create request"

\* the error values of a finished call; "" stands for nil
CtxErr == "context canceled"
MarshalErr == "marshal payload"

NotCancelled == [done |-> FALSE, at |-> "none"]

\* ------------------------------------------- storage: zfs_pool_devices
Pools == {"tank", "backup"}

\* what discovery extracts from a pool's status: the device ids and the vdev type
PoolStatusInputs ==
    { [deviceIDs |-> <<"d1">>, vdevType |-> "data"],
      [deviceIDs |-> <<"d1", "d2">>, vdevType |-> "cache"],
      [deviceIDs |-> <<"d2", "", "d3">>, vdevType |-> "data"] }

\* DELETE FROM zfs_pool_devices WHERE pool_name=?
DeletePoolDevices(table, poolName) ==
    {r \in table : r.pool_name # poolName}

\* INSERT INTO zfs_pool_devices (pool_name, disk_id, vdev_type): the primary key
\* (pool_name, disk_id) refuses a second row
InsertPoolDevice(table, poolName, diskID, vdevType) ==
    IF \E r \in table : r.pool_name = poolName /\ r.disk_id = diskID
    THEN table
    ELSE table \cup {[pool_name |-> poolName, disk_id |-> diskID, vdev_type |-> vdevType]}

\* GetPoolDevices: SELECT disk_id FROM zfs_pool_devices WHERE pool_name=?
GetPoolDevices(table, poolName) ==
    {r.disk_id : r \in {x \in table : x.pool_name = poolName}}

\* the non-empty device ids of a list
DeviceIds(deviceIDs) ==
    {deviceIDs[k] : k \in {i \in DOMAIN deviceIDs : deviceIDs[i] # ""}}

NoRead == [none |-> TRUE]


\* ------------------------------------------- storage: StoreSchedules, twice
\* StoreSchedules calls in one run
MaxStores == 2

\* the poll responses whose schedules are a 30 s interval, a cron expression or
\* a disabled schedule
StoreLists ==
    {L \in PollResponses :
        \A k \in DOMAIN L :
            \/ L[k].schedule_type = "CRON"
            \/ L[k].schedule_value = <<"3", "0", "s">>}

NotApplied == [pc |-> "idle", calls |-> 0]

\* ------------------------------------------- storage: snapshots and pruning
MaxSnapshots == 2        \* rows per snapshot table
MaxPruneAlerts == 1      \* alerts raised while pruning is observed

\* the moments the clock visits: the start, a day later, the retention period later
PruneTimes == {0, Day, Day + Second, 90 * Day + Second}

\* the days argument of a direct call; runPruneLoop passes 90
PruneDaysInputs == {0, 1}

DiskIds == {"sda"}

\* if days <= 0 { days = 90 }
EffectiveDays(days) == IF days <= 0 THEN 90 ELSE days

\* datetime('now', '-N days') evaluated at time t; both sides of the comparison
\* are 'YYYY-MM-DD HH:MM:SS' texts in UTC, whose order is the order of the seconds
PruneCutoff(t, days) == t - days * Day

DeleteAllRows(table, cutoff) == {}

\* DELETE FROM <table> WHERE timestamp < <cutoff>
DeleteOlder(table, cutoff) == {r \in table : ~(r.timestamp < cutoff)}

\* the alerts of the disk's evaluation at time t
DiskAlerts(t) ==
    {a \in AlertInputs(t) : a.severity = "critical" /\ a.source_id \in DiskIds}

othersOfAlerts == <<cfg, notification_queue, lastSent, entries, sendLog, handled>>

\* --------------------------------------------- storage: reading an alert back
MaxAckAlerts == 2        \* alerts added while the alerts API is observed

\* the Timestamp values AddAlert is given
AlertTimes == {0, 59 * Second, Hour + Minute + Second}

DateTimeToMinute(ts) ==
    [day |-> ts \div Day, hour |-> (ts % Day) \div Hour,
     minute |-> (ts % Hour) \div Minute, second |-> 0]

\* datetime(ts, 'unixepoch'): the text 'YYYY-MM-DD HH:MM:SS', its date as a day number
DateTime(ts) ==
    [day |-> ts \div Day, hour |-> (ts % Day) \div Hour,
     minute |-> (ts % Hour) \div Minute, second |-> ts % Minute]

\* strftime('%s', text), scanned into an int64
UnixSeconds(dt) == dt.day * Day + dt.hour * Hour + dt.minute * Minute + dt.second * Second

NoRow == [found |-> FALSE]

\* GetAlert: SELECT ... WHERE id = ?; sql.ErrNoRows gives (nil, nil). A row's timestamp
\* is kept here as the seconds AddAlert was given; the column holds DateTime of them
GetAlert(table, alertID) ==
    IF alertID \in DOMAIN table
    THEN [found |-> TRUE, id |-> alertID,
          timestamp |-> UnixSeconds(DateTime(table[alertID].timestamp)),
          severity |-> table[alertID].severity,
          source_type |-> table[alertID].source_type,
          source_id |-> table[alertID].source_id,
          subject |-> table[alertID].subject,
          acknowledged |-> table[alertID].acknowledged # FALSE]
    ELSE NoRow

AcknowledgeAlertSilent(table, alertID, ok) ==
    IF ok /\ alertID \in DOMAIN table
    THEN [table |-> [table EXCEPT ![alertID].acknowledged = TRUE], err |-> "nil"]
    ELSE [table |-> table, err |-> IF ok THEN "nil" ELSE "database is locked"]

\* AcknowledgeAlert: UPDATE alerts SET acknowledged = 1 WHERE id = ?; the statement
\* fails (ok = FALSE) or affects the rows it matches, none meaning "alert not found"
AcknowledgeAlert(table, alertID, ok) ==
    IF ~ok
    THEN [table |-> table, err |-> "database is locked"]
    ELSE IF alertID \in DOMAIN table
         THEN [table |-> [table EXCEPT ![alertID].acknowledged = TRUE], err |-> "nil"]
         ELSE [table |-> table, err |-> "alert not found"]

\* handleAcknowledgeAlert's status code for the error AcknowledgeAlert returned
AcknowledgeStatus(err) ==
    IF err = "nil" THEN 200
    ELSE IF err = "alert not found" THEN 404
    ELSE 500

NoAlertCalls == [added |-> <<>>, acked |-> {}, resp |-> [pc |-> "none"]]

\* ------------------------------------------------------- health evaluation
NotEvaluated == [pc |-> "none"]

\* the moment of the evaluation that is followed
EvaluationTime == 30 * Day

\* AlertsConfig.TemperatureThresholds and SchedulingConfig.ZFSScrubInterval of the
\* provider: the zero values of NewStorageBackedProvider, or configured ones
HealthConfigs ==
    { [HDDWarning |-> 0, HDDCritical |-> 0, NvmeWarning |-> 0, NvmeCritical |-> 0,
       ZFSScrubInterval |-> 0],
      [HDDWarning |-> 50, HDDCritical |-> 60, NvmeWarning |-> 60, NvmeCritical |-> 80,
       ZFSScrubInterval |-> 7 * Day] }

\* what ListDisks returns: no disk, or one
ListDisksInputs ==
    {<<>>, <<[ID |-> "sda", Type |-> "hdd"]>>, <<[ID |-> "nvme0", Type |-> "nvme"]>>}

\* what ListPools returns: no pool, or one; LastScrubTime and LastScrubError are NULL
\* when not Valid
PoolInputs ==
    [Name : {"tank"}, State : {"", "ONLINE", "DEGRADED", "FAULTED"},
     LastScrubTime : {NULL, 0, EvaluationTime - Day, EvaluationTime - 8 * Day},
     LastScrubError : {NULL, 0, 5, 101}]

ListPoolsInputs == {<<>>} \cup {<<p>> : p \in PoolInputs}

\* what the two listings return together: a disk with no pool or with a pool that was
\* never scrubbed, or no disk with any of the pools
ListingInputs ==
    {[disks |-> ds, pools |-> ps] :
        ds \in ListDisksInputs,
        ps \in {<<>>, <<[Name |-> "tank", State |-> "DEGRADED", LastScrubTime |-> NULL,
                         LastScrubError |-> NULL]>>}}
    \cup {[disks |-> <<>>, pools |-> ps] : ps \in ListPoolsInputs}

NoSnapshot == [none |-> TRUE]

\* what LatestSmart returns for a disk
SmartSnapInputs ==
    [HealthStatus : {"passed", "failed"}, OfflineUncorrect : {0, 1}, Pending : {0, 1},
     Reallocated : {0, 1}, CRCErrors : {0, 12}, TemperatureC : {40, 65, 75}]
    \cup {NoSnapshot}

\* what SmartHistory(2) returns, newest first: fewer than two snapshots, or two
SmartHistoryInputs ==
    {<<>>} \cup
    {<<curr, prev>> : curr \in [Reallocated : {0, 1}, CRCErrors : {0, 12}],
                      prev \in [Reallocated : {0}, CRCErrors : {0, 2}]}

\* the critical_warning_flags column: empty, not JSON, or the JSON of the four flags
WarningFlagsInputs ==
    {[text |-> "", flags |-> {}], [text |-> "not json", flags |-> {}]}
    \cup {[text |-> "json", flags |-> f] :
            f \in {{}, {"available_spare_low"}, {"temperature_threshold_exceeded"},
                   {"reliability_degraded"}, {"read_only"},
                   {"available_spare_low", "temperature_threshold_exceeded",
                    "reliability_degraded", "read_only"}}}

\* what LatestNvme returns for a disk
NvmeSnapInputs ==
    [TemperatureC : {40, 75, 90}, PercentUsed : {0, 80, 95}, MediaErrors : {0, 1, 11},
     CriticalWarningFlags : WarningFlagsInputs]
    \cup {NoSnapshot}

\* what NvmeHistory(2) returns, newest first
NvmeHistoryInputs ==
    {<<>>, <<[UnsafeShutdowns |-> 1], [UnsafeShutdowns |-> 1]>>,
     <<[UnsafeShutdowns |-> 2], [UnsafeShutdowns |-> 1]>>}

\* newAlert at time t
newAlert(sev, sourceType, sourceID, subject, t) ==
    [timestamp |-> t, severity |-> sev, source_type |-> sourceType,
     source_id |-> sourceID, subject |-> subject]

\* one conditional block of an evaluator: when its condition is on, the score is set
\* (set # NULL) or lowered by delta, the status is set (status # ""), an issue is
\* appended, and alerts are appended
Finding(on, set, delta, status, issue, found) ==
    [on |-> on, set |-> set, delta |-> delta, status |-> status, issue |-> issue,
     found |-> found]

\* the blocks of an evaluator applied in their order to r = (health, alerts)
RECURSIVE ApplyFindings(_, _)
ApplyFindings(r, findings) ==
    IF findings = <<>> THEN r
    ELSE LET f == Head(findings)
         IN  ApplyFindings(
                 IF f.on
                 THEN [r EXCEPT !.health.HealthScore = IF f.set # NULL THEN f.set
                                                       ELSE @ - f.delta,
                                !.health.Status = IF f.status # "" THEN f.status ELSE @,
                                !.health.Issues = Append(@, f.issue),
                                !.alerts = @ \o f.found]
                 ELSE r,
                 Tail(findings))

\* if health.HealthScore < 60 && health.Status != "critical" { health.Status = "warning" }
LowScoreWarning(health) ==
    IF health.HealthScore < 60 /\ health.Status # "critical"
    THEN [health EXCEPT !.Status = "warning"]
    ELSE health

evaluateSmartDisk(c, d, health, snap, history, t) ==
    IF snap = NoSnapshot THEN [health |-> health, alerts |-> <<>>]
    ELSE
    LET hddWarning == IF c.HDDWarning = 0 THEN 55 ELSE c.HDDWarning
        hddCritical == IF c.HDDCritical = 0 THEN 70 ELSE c.HDDCritical
        two == Len(history) >= 2
        r == ApplyFindings([health |-> health, alerts |-> <<>>], <<
            Finding(snap.HealthStatus = "failed", 10, 0, "critical", "smart_failed",
                    <<newAlert("critical", "disk", d.ID, "SMART FAILED", t)>>),
            Finding(snap.OfflineUncorrect > 0, NULL, 40, "critical", "offline_uncorrectable",
                    <<newAlert("critical", "disk", d.ID, "Offline uncorrectable sectors", t)>>),
            Finding(snap.Pending > 0, NULL, 30, "", "pending_sectors",
                    <<newAlert("warning", "disk", d.ID, "Pending sectors", t)>>),
            Finding(snap.Reallocated > 0, NULL, 20, "", "reallocated_sectors", <<>>),
            Finding(snap.TemperatureC > hddCritical, NULL, 30, "critical",
                    "temperature_critical",
                    <<newAlert("critical", "disk", d.ID, "Critical temperature", t)>>),
            Finding(~(snap.TemperatureC > hddCritical) /\ snap.TemperatureC > hddWarning,
                    NULL, 0, "", "temperature_high",
                    <<newAlert("warning", "disk", d.ID, "High temperature", t)>>),
            Finding(two /\ history[1].Reallocated > history[2].Reallocated,
                    NULL, 15, "", "reallocated_increasing",
                    <<newAlert("warning", "disk", d.ID, "Reallocated sectors increasing", t)>>),
            Finding(two /\ history[1].CRCErrors > history[2].CRCErrors
                        /\ history[1].CRCErrors - history[2].CRCErrors > 10,
                    NULL, 0, "", "crc_errors_increasing",
                    <<newAlert("warning", "disk", d.ID, "CRC errors increasing", t)>>),
            Finding(snap.CRCErrors > 0, NULL, 0, "", "crc_errors", <<>>) >>)
    IN  [r EXCEPT !.health = LowScoreWarning(@)]

\* json.Unmarshal of the flags column: an error, or the flags set to true
UnmarshalFlags(column) ==
    IF column.text = "json" THEN [err |-> FALSE, flags |-> column.flags]
    ELSE [err |-> TRUE, flags |-> {}]

evaluateNvmeDisk(c, d, health, snap, history, t) ==
    IF snap = NoSnapshot THEN [health |-> health, alerts |-> <<>>]
    ELSE
    LET nvmeWarning == IF c.NvmeWarning = 0 THEN 70 ELSE c.NvmeWarning
        nvmeCritical == IF c.NvmeCritical = 0 THEN 85 ELSE c.NvmeCritical
        parsed == UnmarshalFlags(snap.CriticalWarningFlags)
        flag(name) == /\ snap.CriticalWarningFlags.text # ""
                      /\ ~parsed.err
                      /\ name \in parsed.flags
        r == ApplyFindings([health |-> health, alerts |-> <<>>], <<
            Finding(snap.TemperatureC > nvmeCritical, NULL, 30, "critical",
                    "temperature_critical",
                    <<newAlert("critical", "disk", d.ID, "Critical temperature", t)>>),
            Finding(~(snap.TemperatureC > nvmeCritical) /\ snap.TemperatureC > nvmeWarning,
                    NULL, 0, "", "temperature_high",
                    <<newAlert("warning", "disk", d.ID, "High temperature", t)>>),
            Finding(snap.PercentUsed >= 95, 20, 0, "critical", "nvme_wear_high",
                    <<newAlert("critical", "disk", d.ID, "NVMe endurance high", t)>>),
            Finding(~(snap.PercentUsed >= 95) /\ snap.PercentUsed >= 80, 60, 0, "warning",
                    "nvme_wear_warning",
                    <<newAlert("warning", "disk", d.ID, "NVMe endurance warning", t)>>),
            Finding(snap.MediaErrors > 0, NULL, 20, "", "nvme_media_errors",
                    <<newAlert(IF snap.MediaErrors > 10 THEN "critical" ELSE "warning",
                               "disk", d.ID, "NVMe media errors", t)>>),
            Finding(flag("available_spare_low"), NULL, 30, "critical", "nvme_spare_low",
                    <<newAlert("critical", "disk", d.ID, "NVMe spare space low", t)>>),
            Finding(flag("temperature_threshold_exceeded"), NULL, 25, "critical",
                    "nvme_temp_threshold",
                    <<newAlert("critical", "disk", d.ID,
                               "NVMe temperature threshold exceeded", t)>>),
            Finding(flag("reliability_degraded"), NULL, 40, "critical",
                    "nvme_reliability_degraded",
                    <<newAlert("critical", "disk", d.ID, "NVMe reliability degraded", t)>>),
            Finding(flag("read_only"), 0, 0, "critical", "nvme_read_only",
                    <<newAlert("critical", "disk", d.ID, "NVMe read-only mode", t)>>),
            Finding(Len(history) >= 2
                        /\ history[1].UnsafeShutdowns > history[2].UnsafeShutdowns,
                    NULL, 0, "", "unsafe_shutdowns_increased",
                    <<newAlert("warning", "disk", d.ID, "Unsafe shutdowns increased", t)>>) >>)
    IN  [r EXCEPT !.health = LowScoreWarning(@)]

\* the end of evaluateDisk: a negative score becomes 0
ClampScore(health) ==
    LET clamped == IF health.HealthScore < 0 THEN [health EXCEPT !.HealthScore = 0]
                   ELSE health
    IN  IF clamped.HealthScore = 100 /\ clamped.Issues = <<>>
        THEN [clamped EXCEPT !.Status = "ok"]
        ELSE clamped

evaluateDiskNoClamp(c, d, snap, history, t) ==
    LET health == [ID |-> d.ID, Type |-> d.Type, Status |-> "ok", HealthScore |-> 100,
                   Issues |-> <<>>]
    IN  IF d.Type = "nvme" THEN evaluateNvmeDisk(c, d, health, snap, history, t)
        ELSE evaluateSmartDisk(c, d, health, snap, history, t)

evaluateDisk(c, d, snap, history, t) ==
    LET health == [ID |-> d.ID, Type |-> d.Type, Status |-> "ok", HealthScore |-> 100,
                   Issues |-> <<>>]
    IN  [(IF d.Type = "nvme" THEN evaluateNvmeDisk(c, d, health, snap, history, t)
          ELSE evaluateSmartDisk(c, d, health, snap, history, t))
         EXCEPT !.health = ClampScore(@)]

evaluatePool(c, pool, t) ==
    LET lastScrubTime == IF pool.LastScrubTime # NULL THEN pool.LastScrubTime ELSE 0
        timeSinceScrub == t - lastScrubTime
        errors == pool.LastScrubError
        hasErrors == pool.LastScrubError # NULL /\ errors > 0
    IN  ApplyFindings(
            [health |-> [Name |-> pool.Name, State |-> pool.State, Status |-> "ok",
                         HealthScore |-> 100, Issues |-> <<>>],
             alerts |-> <<>>], <<
            Finding(pool.State # "ONLINE" /\ pool.State # "", 0, 0, "critical",
                    "pool_state_" \o pool.State,
                    <<newAlert("critical", "pool", pool.Name, "Pool not healthy", t)>>),
            Finding(c.ZFSScrubInterval > 0 /\ lastScrubTime > 0
                        /\ timeSinceScrub > c.ZFSScrubInterval,
                    NULL, 20, "warning", "scrub_overdue",
                    <<newAlert("warning", "pool", pool.Name, "Scrub overdue", t)>>),
            Finding(c.ZFSScrubInterval > 0 /\ ~(lastScrubTime > 0),
                    NULL, 0, "", "scrub_never",
                    <<newAlert("warning", "pool", pool.Name, "Scrub never run", t)>>),
            Finding(hasErrors /\ errors > 100, NULL, 30, "critical", "scrub_errors_critical",
                    <<newAlert("critical", "pool", pool.Name, "Scrub errors (critical)", t)>>),
            Finding(hasErrors /\ ~(errors > 100), NULL, 15, "warning", "scrub_errors",
                    <<newAlert("warning", "pool", pool.Name, "Scrub errors", t)>>) >>)

\* persistAlerts: AddAlert of each alert in turn; the first error ends it, after
\* stored of them were added
RECURSIVE persistAlerts(_, _, _)
persistAlerts(table, found, stored) ==
    IF stored = 0 \/ found = <<>> THEN table
    ELSE persistAlerts(AddAlert(table, Head(found)), Tail(found), stored - 1)

CompositeStatusOfFirst(found) ==
    IF found = <<>> THEN "ok"
    ELSE IF Head(found).severity \in {"critical", "warning"} THEN Head(found).severity
    ELSE "ok"

\* the status loop of Summary: the first critical alert ends it
CompositeStatus(found) ==
    LET RECURSIVE Loop(_, _)
        Loop(status, rest) ==
            IF rest = <<>> THEN status
            ELSE IF Head(rest).severity = "critical" THEN "critical"
            ELSE IF Head(rest).severity = "warning" /\ status = "ok"
                 THEN Loop("warning", Tail(rest))
            ELSE Loop(status, Tail(rest))
    IN  Loop("ok", found)

\* ------------------------------------------------------------- discovery
\* texts are sequences of characters here
DevDir == <<"/", "d", "e", "v", "/">>
ByIdDir == <<"/", "d", "e", "v", "/", "d", "i", "s", "k", "/", "b", "y", "-", "i", "d", "/">>
UpUp == <<".", ".", "/", ".", ".", "/">>
Sda == <<"s", "d", "a">>
Sdb == <<"s", "d", "b">>
Nvme0n1 == <<"n", "v", "m", "e", "0", "n", "1">>
Loop0 == <<"l", "o", "o", "p", "0">>
NvmeStar == <<"n", "v", "m", "e", "*">>

HasPrefix(s, prefix) == Len(s) >= Len(prefix) /\ SubSeq(s, 1, Len(prefix)) = prefix
HasSuffix(s, suffix) ==
    Len(s) >= Len(suffix) /\ SubSeq(s, Len(s) - Len(suffix) + 1, Len(s)) = suffix

\* filepath.Match for patterns of literals, '*' and '?': the pattern has to match the
\* whole name, and neither '*' nor '?' matches the separator '/'
RECURSIVE Match(_, _)
Match(pattern, name) ==
    IF pattern = <<>> THEN name = <<>>
    ELSE IF Head(pattern) = "*" THEN
             \/ Match(Tail(pattern), name)
             \/ name # <<>> /\ Head(name) # "/" /\ Match(pattern, Tail(name))
    ELSE IF Head(pattern) = "?" THEN
             name # <<>> /\ Head(name) # "/" /\ Match(Tail(pattern), Tail(name))
    ELSE name # <<>> /\ Head(name) = Head(pattern) /\ Match(Tail(pattern), Tail(name))

\* classifyDevice, the rotational file's text already trimmed
classifyDevice(name, rotational) ==
    IF HasPrefix(name, <<"n", "v", "m", "e">>) THEN "nvme"
    ELSE IF rotational = "1" THEN "hdd"
    ELSE "sata_ssd"

\* what os.ReadDir returns: an error, or the entries in order
ReadDirError == [err |-> TRUE]
ReadDir(listing) == [err |-> FALSE, entries |-> listing]

\* byIDPath: the first link of /dev/disk/by-id whose target ends with "/" + name
RECURSIVE byIDPath(_, _)
byIDPath(name, byId) ==
    IF byId.err \/ byId.entries = <<>> THEN DevDir \o name
    ELSE IF HasSuffix(Head(byId.entries).target, <<"/">> \o name)
         THEN ByIdDir \o Head(byId.entries).link
         ELSE byIDPath(name, [byId EXCEPT !.entries = Tail(@)])

\* scanSysBlock over the entries of /sys/block
RECURSIVE scanSysBlock(_, _)
scanSysBlock(sysBlock, byId) ==
    IF sysBlock = <<>> THEN <<>>
    ELSE LET name == Head(sysBlock).name IN
         IF \/ HasPrefix(name, <<"l", "o", "o", "p">>)
            \/ HasPrefix(name, <<"r", "a", "m">>)
            \/ HasPrefix(name, <<"d", "m", "-">>)
         THEN scanSysBlock(Tail(sysBlock), byId)
         ELSE <<[ID |-> byIDPath(name, byId), Name |-> DevDir \o name,
                 Type |-> classifyDevice(name, Head(sysBlock).rotational)]>>
              \o scanSysBlock(Tail(sysBlock), byId)

\* one of filterDevices' loops over a pattern list, left at the first match
RECURSIVE MatchedByAny(_, _)
MatchedByAny(patterns, disk) ==
    IF patterns = <<>> THEN FALSE
    ELSE IF Match(Head(patterns), disk.ID) THEN TRUE
    ELSE IF Match(Head(patterns), disk.Name) THEN TRUE
    ELSE MatchedByAny(Tail(patterns), disk)

RECURSIVE filterDevicesIncludeFirst(_, _)
filterDevicesIncludeFirst(c, scanned) ==
    IF scanned = <<>> THEN <<>>
    ELSE (IF MatchedByAny(c.IncludeDevices, Head(scanned))
             \/ ~MatchedByAny(c.ExcludeDevices, Head(scanned))
          THEN <<Head(scanned)>> ELSE <<>>)
         \o filterDevicesIncludeFirst(c, Tail(scanned))

RECURSIVE filterDevices(_, _)
filterDevices(c, scanned) ==
    IF scanned = <<>> THEN <<>>
    ELSE LET disk == Head(scanned)
             excluded == MatchedByAny(c.ExcludeDevices, disk)
             rest == filterDevices(c, Tail(scanned))
         IN  IF excluded THEN rest
             ELSE IF Len(c.IncludeDevices) > 0 /\ ~MatchedByAny(c.IncludeDevices, disk)
             THEN rest
             ELSE <<disk>> \o rest

\* what /sys/block holds: name and the text of queue/rotational, in ReadDir's order
SysBlockInputs ==
    { ReadDirError,
      ReadDir(<<[name |-> Loop0, rotational |-> "0"], [name |-> Nvme0n1, rotational |-> "0"],
                [name |-> Sda, rotational |-> "1"]>>),
      ReadDir(<<[name |-> Sda, rotational |-> "0"], [name |-> Sdb, rotational |-> "1"]>>),
      ReadDir(<<>>) }

\* what /dev/disk/by-id holds: unreadable, or links with their targets
ByIdInputs ==
    { ReadDirError,
      ReadDir(<<[link |-> <<"a", "t", "a", "-", "1">>, target |-> UpUp \o Sda],
                [link |-> <<"n", "v", "m", "e", "-", "1">>, target |-> UpUp \o Nvme0n1]>>) }

\* the glob patterns of the configuration
PatternInputs ==
    { NvmeStar, DevDir \o NvmeStar, DevDir \o <<"s", "d", "?">>, <<"*">>,
      ByIdDir \o <<"a", "t", "a", "-", "*">> }

PatternLists ==
    {<<>>} \cup {<<p>> : p \in PatternInputs}
    \cup {<<NvmeStar, DevDir \o <<"s", "d", "?">>>>}

\* StorageConfig of NewWithConfig
DiscoveryConfigs ==
    [IncludeDevices : PatternLists, ExcludeDevices : PatternLists, ZFSEnable : BOOLEAN]

NoPass == [none |-> TRUE]

\* UpsertPoolDevices with every statement succeeding: the DELETE, then an INSERT for
\* each non-empty device id
RECURSIVE InsertPoolDevices(_, _, _, _)
InsertPoolDevices(table, poolName, deviceIDs, vdevType) ==
    IF deviceIDs = <<>> THEN table
    ELSE InsertPoolDevices(
             IF Head(deviceIDs) = "" THEN table
             ELSE InsertPoolDevice(table, poolName, Head(deviceIDs), vdevType),
             poolName, Tail(deviceIDs), vdevType)

\* what discoverZFS finds: zpool fails or lists no pool, or pool tank with its devices
ZfsDiscoveryInputs == {NoRead} \cup PoolStatusInputs

\* ------------------------------------------------ notifier: concurrent Send
\* the scheduler loops whose bodies end with dispatchHealth, each on its own goroutine
DispatchLoops == {"ZFS_STATUS", "SMART_COLLECT", "NVME_COLLECT"}

\* --------------------------------------------- scheduler/cron.go: NextCronTime
\* strconv.Itoa of a value that is not negative
RECURSIVE Itoa(_)
Itoa(n) ==
    LET digit == CHOOSE c \in Digits : DigitVal(c) = n % 10
    IN  IF n < 10 THEN <<digit>> ELSE Itoa(n \div 10) \o <<digit>>

IsNumber(text) == text # <<>> /\ \A i \in DOMAIN text : text[i] \in Digits

\* the pieces of a text between the occurrences of a separator character
RECURSIVE SplitOn(_, _)
SplitOn(text, sep) ==
    IF \A i \in DOMAIN text : text[i] # sep THEN <<text>>
    ELSE LET at == MinOf({i \in DOMAIN text : text[i] = sep})
         IN  <<SubSeq(text, 1, at - 1)>> \o SplitOn(SubSeq(text, at + 1, Len(text)), sep)

\* regexp \s+ of NextCronTime on texts whose only white space is the blank
Fields(text) == SelectSeq(SplitOn(text, " "), LAMBDA part : part # <<>>)

\* ^(\d+)-(\d+)$
IsRange(pattern) ==
    LET parts == SplitOn(pattern, "-")
    IN  Len(parts) = 2 /\ IsNumber(parts[1]) /\ IsNumber(parts[2])

InRange(val, pattern) ==
    LET parts == SplitOn(pattern, "-")
    IN  val >= Atoi(parts[1]) /\ val <= Atoi(parts[2])

\* matchesCronField: "*", the value itself, a range, a list, or a step
matchesCronField(value, pattern) ==
    LET val == Atoi(value)
        list == SplitOn(pattern, ",")
        slash == {i \in DOMAIN pattern : pattern[i] = "/"}
        cut == MaxOf(slash)
        base == SubSeq(pattern, 1, cut - 1)
        step == SubSeq(pattern, cut + 1, Len(pattern))
    IN  IF pattern = <<"*">> THEN TRUE
        ELSE IF value = pattern THEN TRUE
        ELSE IF IsRange(pattern) THEN InRange(val, pattern)
        ELSE IF (\A k \in DOMAIN list : IsNumber(list[k]))
                /\ \E k \in DOMAIN list : list[k] = value THEN TRUE
        ELSE IF slash # {} /\ cut > 1 /\ IsNumber(step)
             THEN IF base = <<"*">> THEN val % Atoi(step) = 0
                  ELSE IsRange(base) /\ InRange(val, base)
                       /\ (val - Atoi(SplitOn(base, "-")[1])) % Atoi(step) = 0
        ELSE FALSE

\* the fields of the moment t, the clock's 0 being 1 January 1970 00:00 UTC, a
\* Thursday; t stays within that month
Calendar(t) ==
    [minute |-> (t \div Minute) % 60, hour |-> (t \div Hour) % 24,
     day |-> 1 + (t \div Day), month |-> 1, weekday |-> (4 + (t \div Day)) % 7]

maxAttempts == 365 * 24 * 60

RECURSIVE CronSearch(_, _, _)
CronSearch(parts, next, i) ==
    LET at == Calendar(next)
        weekdayMatches ==
            \/ matchesCronField(Itoa(at.weekday), parts[5])
            \/ (at.weekday = 0 /\ matchesCronField(<<"7">>, parts[5]))
    IN  IF i >= maxAttempts THEN [ok |-> FALSE, next |-> 0]
        ELSE IF /\ matchesCronField(Itoa(at.minute), parts[1])
                /\ matchesCronField(Itoa(at.hour), parts[2])
                /\ matchesCronField(Itoa(at.day), parts[3])
                /\ matchesCronField(Itoa(at.month), parts[4])
                /\ weekdayMatches
             THEN [ok |-> TRUE, next |-> next]
        ELSE CronSearch(parts, next + Minute, i + 1)

\* NextCronTime: the first minute after from's own that matches the five fields
NextCronTime(cronExpr, from) ==
    LET parts == Fields(cronExpr)
    IN  IF Len(parts) # 5 THEN [ok |-> FALSE, next |-> 0]
        ELSE CronSearch(parts, (from - (from % Minute)) + Minute, 0)

\* ------------------------------------------ scheduler: runLoopWithSchedule
\* the moments up to which a loop is followed, in steps of half a minute
MaxLoopClock == 2 * Minute
LoopClockStep == 30 * Second

\* the loops Start launches in any case, and those it launches for a positive interval
AlwaysStarted == {"ZFS_STATUS", "SMART_COLLECT"}
StartedIfPositive == {"ZFS_SCRUB"}
LoopTasks == AlwaysStarted \cup StartedIfPositive

LoopConfigIntervals == {0, 30 * Second, 6 * Hour}

CronAtMinuteTwo == <<"2", " ", "*", " ", "*", " ", "*", " ", "*">>

\* the schedules the cloud sends for a loop's task
LoopScheduleKinds ==
    { [schedule_type |-> "INTERVAL", schedule_value |-> <<"0", "s">>, enabled |-> TRUE],
      [schedule_type |-> "INTERVAL", schedule_value |-> <<"2", "m">>, enabled |-> TRUE],
      [schedule_type |-> "CRON", schedule_value |-> CronAtMinuteTwo, enabled |-> TRUE],
      [schedule_type |-> "CRON", schedule_value |-> CronAtMinuteTwo, enabled |-> FALSE] }

LoopPollResponses ==
    { <<[id |-> "s1", task_type |-> t, schedule_type |-> k.schedule_type,
         schedule_value |-> k.schedule_value, enabled |-> k.enabled]>> :
      t \in LoopTasks, k \in LoopScheduleKinds }

\* ------------------------------------------------- cancellation and Stop
\* commands that wait in the queue of the command processor
MaxPendingCmds == 2

\* ------------------------------------------------- scheduler: Start, runOnce
\* the collector loops, whose bodies read the disk list or the schedules
CollectorLoops == {"ZFS_STATUS", "SMART_COLLECT", "NVME_COLLECT"}

startSequenceLoopsFirst(once, cloudEnabled) ==
    IF once
    THEN <<"discovery.RunOnce", "ListDisks", "smart.Collect", "nvme.Collect", "zfs.Collect",
           "dispatchHealth">>
    ELSE (IF cloudEnabled THEN <<"pollAndStoreSchedules">> ELSE <<>>)
         \o <<"go loops", "discovery.RunOnce", "<-ctx.Done()">>

\* the statements of Start in the order it executes them: runOnce in once mode,
\* else the schedule poll (with the cloud enabled), the discovery pass, the go
\* statements and the wait for the context
startSequence(once, cloudEnabled) ==
    IF once
    THEN <<"discovery.RunOnce", "ListDisks", "smart.Collect", "nvme.Collect", "zfs.Collect",
           "dispatchHealth">>
    ELSE (IF cloudEnabled THEN <<"pollAndStoreSchedules">> ELSE <<>>)
         \o <<"discovery.RunOnce", "go loops", "<-ctx.Done()">>

\* the disks a discovery pass finds and upserts
FoundDisks == {{}, {"sda"}, {"sda", "nvme0n1"}}

\* what PollSchedules returns at startup: an error, or schedules
StartupPolls == {NoRead} \cup {[schedules |-> r] : r \in LoopPollResponses \cup {<<>>}}

\* ------------------------------------------ scheduler: SMART self-tests
\* runs of runSmartTestsScheduler that are followed
MaxTestRuns == 3
\* the clock of these runs starts here and stops there
FirstTestClock == 1 * Hour
LastTestClock == FirstTestClock + 3 * Minute

TestTypes == {"short", "long"}
\* the effective interval of the loop of a test type
TestInterval(testType) == IF testType = "short" THEN 1 * Minute ELSE 2 * Minute
\* ListDisks
TestDisks ==
    <<[ID |-> "sda", Type |-> "hdd"], [ID |-> "nvme0n1", Type |-> "nvme"],
      [ID |-> "sdb", Type |-> "sata_ssd"]>>

\* what happens to a test that is due: smartctl fails; it starts and is recorded;
\* it starts and RecordSmartTest fails
TestOutcomes == {"failed", "recorded", "unrecorded"}

\* GetLastSmartTestTime: strftime('%s', last_run_time) of the row, 0 without a row
GetLastSmartTestTime(table, diskID, testType) ==
    LET rows == {r \in table : r.disk_id = diskID /\ r.test_type = testType}
    IN  IF rows = {} THEN 0 ELSE (CHOOSE r \in rows : TRUE).last_run_time

\* RecordSmartTest: INSERT ... ON CONFLICT(disk_id, test_type) DO UPDATE
RecordSmartTest(table, diskID, testType, t) ==
    {r \in table : ~(r.disk_id = diskID /\ r.test_type = testType)}
    \cup {[disk_id |-> diskID, test_type |-> testType, last_run_time |-> t]}

smartTestDueAlways(lastTest, t, intervalSeconds) == TRUE

\* if lastTest == 0 || (now-lastTest) >= intervalSeconds
smartTestDue(lastTest, t, intervalSeconds) ==
    lastTest = 0 \/ (t - lastTest) >= intervalSeconds

\* the for loop of runSmartTestsScheduler over the listed disks
RECURSIVE runSmartTests(_, _, _, _, _, _)
runSmartTests(st, listed, testType, interval, t, outcome) ==
    IF listed = <<>> THEN st
    ELSE LET disk == Head(listed)
             lastTest == GetLastSmartTestTime(st.table, disk.ID, testType)
             how == IF disk.ID \in DOMAIN outcome THEN outcome[disk.ID] ELSE "recorded"
             after ==
                 IF disk.Type = "nvme" THEN st
                 ELSE IF ~smartTestDue(lastTest, t, interval) THEN st
                 ELSE [st EXCEPT
                          !.table = IF how = "recorded"
                                    THEN RecordSmartTest(@, disk.ID, testType, t) ELSE @,
                          !.log = Append(@, [disk |-> disk, test |-> testType, at |-> t,
                                             interval |-> interval, how |-> how,
                                             run |-> st.runs + 1])]
         IN  runSmartTests(after, Tail(listed), testType, interval, t, outcome)

\* --------------------------------------------- collectors/zfs.go, zfs_pools
\* the clock of the ZFS runs starts here, 14 November 2023 22:13:20 UTC
ScrubEpoch == 1700000000 * Second
LastScrubClock == ScrubEpoch + 3 * Minute
\* runs of runZfsScrubScheduler that are followed
MaxScrubRuns == 3

\* the scan line of zpool status and the date it carries: the pool was never
\* scrubbed, a scrub completed at a date that parseScrubDate reads or does not
\* read, a scrub or a resilver is running, a resilver completed
NoScan == [scan |-> "none requested", errors |-> 0, date |-> 0]
StatusInputs(t) ==
    { NoScan,
      [scan |-> "no scan line", errors |-> 0, date |-> 0],
      [scan |-> "scrub repaired", errors |-> 0, date |-> t - Minute],
      [scan |-> "scrub repaired", errors |-> 2, date |-> ScrubEpoch - 40 * Day],
      [scan |-> "scrub repaired", errors |-> 0, date |-> 0],
      [scan |-> "scrub in progress", errors |-> 0, date |-> t - Minute],
      [scan |-> "resilver in progress", errors |-> 0, date |-> t - Minute],
      [scan |-> "resilvered", errors |-> 0, date |-> t - Minute] }

\* parseScrubInfo: without a scan line 0, 0; the two patterns ask for
\* "scan: scrub ... with N errors", which only the line of a completed scrub
\* holds; its date counts if parseScrubDate reads it (date 0: it does not)
parseScrubInfo(status) ==
    IF status.scan = "no scan line" THEN [lastScrubTime |-> 0, lastScrubErrors |-> 0]
    ELSE IF status.scan = "scrub repaired"
         THEN [lastScrubTime |-> IF status.date > 0 THEN status.date ELSE 0,
               lastScrubErrors |-> status.errors]
    ELSE [lastScrubTime |-> 0, lastScrubErrors |-> 0]

\* nullTime: nil for ts <= 0
nullTime(ts) == IF ts <= 0 THEN NULL ELSE ts

\* UpsertPool: INSERT ... ON CONFLICT(name) DO UPDATE of state, last_scrub_time
\* and last_scrub_errors; the time is bound as an integer or as NULL
UpsertPool(table, name, state, lastScrubTime, lastScrubErrors) ==
    {r \in table : r.name # name}
    \cup {[name |-> name, state |-> state, last_scrub_time |-> nullTime(lastScrubTime),
           last_scrub_errors |-> lastScrubErrors]}

\* SQLite's strftime('%s', v) on an integer v: without the modifier 'unixepoch' v
\* is a Julian day number, and beyond day 5373484 (the year 9999) the result is
\* NULL; else the day's noon in unix seconds
JulianDayMax == 5373484
StrftimeSeconds(v) ==
    IF v = NULL \/ v > JulianDayMax THEN NULL
    ELSE (v - 2440588) * Day + 12 * Hour

\* GetLastScrubTime: SELECT strftime('%s', last_scrub_time) FROM zfs_pools WHERE
\* name=?; no row and NULL read 0
GetLastScrubTime(table, poolName) ==
    LET rows == {r \in table : r.name = poolName}
        lastScrub == StrftimeSeconds((CHOOSE r \in rows : TRUE).last_scrub_time)
    IN  IF rows = {} THEN 0 ELSE IF lastScrub = NULL THEN 0 ELSE lastScrub

\* AddScrubHistory of the scheduler: start_time = datetime(now,'unixepoch'), end_time of 0
AddScrubHistory(table, poolName, startTime) ==
    table \cup {[pool_name |-> poolName, start_time |-> startTime, end_time |-> 0,
                 notes |-> "Scheduled scrub"]}

ScrubConfigIntervals == {2 * Minute, 30 * Day}

\* shouldRun of runZfsScrubScheduler for one pool
shouldRun(cloudSchedule, lastScrub, t, intervalSeconds) ==
    IF cloudSchedule # Nil /\ cloudSchedule.enabled
    THEN IF cloudSchedule.schedule_type = "CRON"
         THEN LET nextTime == NextCronTime(cloudSchedule.schedule_value, lastScrub)
              IN  nextTime.ok /\ t > nextTime.next
         ELSE lastScrub = 0 \/ (t - lastScrub) >= intervalSeconds
    ELSE lastScrub = 0 \/ (t - lastScrub) >= intervalSeconds

\* ------------------------------------- collectors: concurrent Collect calls
\* the goroutines that call Collect: a collection loop (runSmartLoop and
\* runNvmeLoop) and the command processor (collect_smart and collect_nvme)
CollectGoroutines == {"loop", "processor"}
CollectKinds == {"smart", "nvme"}
\* Collect calls that a goroutine makes
MaxCollectCalls == 2
\* the clock of these calls stops there
MaxCollectClock == 2 * Second
\* ListDisks
ListedDisks == <<[ID |-> "sda", Type |-> "hdd"], [ID |-> "nvme0n1", Type |-> "nvme"]>>

\* the for loop of Collect: SmartCollector skips the disks of Type nvme,
\* NvmeCollector the others
Collected(kind, disk) ==
    IF kind = "smart" THEN disk.Type # "nvme" ELSE disk.Type = "nvme"

\* the disks left to a Collect call of the kind, in the order of the list
RECURSIVE Remaining(_, _)
Remaining(kind, listed) ==
    IF listed = <<>> THEN <<>>
    ELSE IF Collected(kind, Head(listed)) THEN listed
    ELSE Remaining(kind, Tail(listed))

\* a goroutine that has dealt with the head of its list goes on to the next disk
\* of its kind, or returns from Collect
NextDisk(w) ==
    LET left == Remaining(w.kind, Tail(w.rest))
    IN  IF left = <<>> THEN [w EXCEPT !.pc = "idle", !.rest = <<>>]
        ELSE [w EXCEPT !.pc = "runCommand", !.rest = left]

\* --------------------------------- health: the two reads of evaluateSmartDisk
\* snapshot rows that the collector inserts in all
MaxSnapRows == 3
\* the clock of the reads stops there
MaxReadClock == 2 * Second
ReadDisks == {"sda", "sdb"}

\* AddSmartSnapshot: the row is appended, its rowid is its place
AddSmartSnapshot(table, diskID, t, reallocated) ==
    Append(table, [rowid |-> Len(table) + 1, disk_id |-> diskID, timestamp |-> t,
                   Reallocated |-> reallocated])

RowsOf(table, diskID) == {table[i] : i \in {j \in DOMAIN table : table[j].disk_id = diskID}}

\* LatestSmart: WHERE disk_id=? ORDER BY timestamp DESC LIMIT 1; among rows of
\* one timestamp SQL leaves the order open
LatestSmart(table, diskID) ==
    LET rows == RowsOf(table, diskID)
    IN  IF rows = {} THEN {NoSnapshot}
        ELSE {r \in rows : \A q \in rows : q.timestamp <= r.timestamp}

\* SmartHistory with limit 2: WHERE disk_id=? ORDER BY timestamp DESC LIMIT 2
SmartHistory(table, diskID) ==
    LET rows == RowsOf(table, diskID)
    IN  IF rows = {} THEN {<<>>}
        ELSE IF Cardinality(rows) = 1 THEN {<<r>> : r \in rows}
        ELSE UNION {{<<a, b>> : b \in {r \in rows \ {a} :
                                          \A q \in rows \ {a} : q.timestamp <= r.timestamp}} :
                    a \in LatestSmart(table, diskID)}

\* ------------------------------------- notifier: deliveries and their records
\* sends that the worker makes in a run that follows them
MaxDeliveries == 2

\* how a send on a channel ends: the channel took the alert and the send returned
\* nil; the channel refused it and the send returned an error; and for sendEmail,
\* whose smtp.SendMail runs in a goroutine of its own, the 30 s deadline passed
\* first and ctx.Err() was returned, the mail going out afterwards or not at all
SendOutcomes(channel) ==
    {"delivered", "refused"}
    \cup (IF channel = "email" THEN {"deadline_delivered", "deadline_lost"} ELSE {})

\* the error the send returned to processPendingNotifications
sendErr(outcome) == outcome # "delivered"

\* the alert reached its channel
Reached(outcome) == outcome \in {"delivered", "deadline_delivered"}

\* ----------------------------------- notifier: the worker followed without end
\* here the times of the queue rows are kept relative to the present moment
\* (0), so that a run without end visits finitely many states
\* the queue: as many entries for email as one batch holds, enqueued a second
\* apart, and then one entry for the webhook; all are due
OlderEntries == BatchLimit
YoungEntry == OlderEntries + 1

\* EnqueueNotification of the n entries in turn
FairQueue(n) ==
    [i \in 1..n |->
        EnqueueNotification(<<>>, i, IF i = YoungEntry THEN "webhook:ops" ELSE "email",
                            i - YoungEntry)[1]]

\* GetPendingNotifications for a queue whose created_at ascends with the id, as
\* in a queue filled in the order of time: the first limit due rows from row i on
RECURSIVE OldestDue(_, _, _, _)
OldestDue(queue, limit, t, i) ==
    IF i > Len(queue) \/ limit = 0 THEN <<>>
    ELSE IF i \in PendingIds(queue, t)
         THEN <<QueueEntry(queue, i)>> \o OldestDue(queue, limit - 1, t, i + 1)
    ELSE OldestDue(queue, limit, t, i + 1)

\* calculateNextRetry takes every attempts count from len(backoffs) - 1 on alike;
\* the counts above it are kept as len(backoffs)
Saturate(queue, queueID) ==
    [queue EXCEPT ![queueID].attempts = IF @ > Len(backoffs) THEN Len(backoffs) ELSE @]

\* d seconds pass: the retry times that lie ahead come nearer by d
Elapse(queue, d) ==
    [i \in DOMAIN queue |->
        IF queue[i].next_retry # NULL /\ queue[i].next_retry > 0
        THEN [queue[i] EXCEPT !.next_retry = IF @ > d THEN @ - d ELSE 0]
        ELSE queue[i]]

\* ------------------------------ scheduler/cron.go: NextCronTime, run-time panics
\* matchesCronField reaches val%step or (val-start)%step with step = 0: an
\* integer division by zero, a run-time panic
matchesCronFieldPanics(value, pattern) ==
    LET val == Atoi(value)
        list == SplitOn(pattern, ",")
        slash == {i \in DOMAIN pattern : pattern[i] = "/"}
        cut == MaxOf(slash)
        base == SubSeq(pattern, 1, cut - 1)
        step == SubSeq(pattern, cut + 1, Len(pattern))
    IN  /\ pattern # <<"*">>
        /\ value # pattern
        /\ ~IsRange(pattern)
        /\ ~((\A k \in DOMAIN list : IsNumber(list[k]))
             /\ \E k \in DOMAIN list : list[k] = value)
        /\ slash # {} /\ cut > 1 /\ IsNumber(step)
        /\ Atoi(step) = 0
        /\ base = <<"*">> \/ (IsRange(base) /\ InRange(val, base))

\* one call of matchesCronField: it panics, returns true or returns false
MatchOutcome(value, pattern) ==
    IF matchesCronFieldPanics(value, pattern) THEN "panic"
    ELSE IF matchesCronField(value, pattern) THEN "match"
    ELSE "no"

\* a && b && ... of calls in their order: the first false ends the evaluation
RECURSIVE AllMatch(_)
AllMatch(checks) ==
    IF checks = <<>> THEN "match"
    ELSE LET first == MatchOutcome(checks[1][1], checks[1][2])
         IN  IF first = "match" THEN AllMatch(Tail(checks)) ELSE first

\* the loop of NextCronTime: weekdayMatches is computed first, then the
\* condition over minute, hour, day and month
RECURSIVE CronSearchRun(_, _, _)
CronSearchRun(parts, next, i) ==
    LET at == Calendar(next)
        weekdayStr == MatchOutcome(Itoa(at.weekday), parts[5])
        weekdayMatches ==
            IF weekdayStr = "no" /\ at.weekday = 0
            THEN MatchOutcome(<<"7">>, parts[5]) ELSE weekdayStr
        fields == AllMatch(<<<<Itoa(at.minute), parts[1]>>, <<Itoa(at.hour), parts[2]>>,
                             <<Itoa(at.day), parts[3]>>, <<Itoa(at.month), parts[4]>>>>)
    IN  IF i >= maxAttempts THEN [outcome |-> "error", next |-> 0]
        ELSE IF weekdayMatches = "panic" \/ fields = "panic"
             THEN [outcome |-> "panic", next |-> next]
        ELSE IF fields = "match" /\ weekdayMatches = "match"
             THEN [outcome |-> "time", next |-> next]
        ELSE CronSearchRun(parts, next + Minute, i + 1)

NextCronTimeRun(cronExpr, from) ==
    LET parts == Fields(cronExpr)
    IN  IF Len(parts) # 5 THEN [outcome |-> "error", next |-> 0]
        ELSE CronSearchRun(parts, (from - (from % Minute)) + Minute, 0)

\* the cron expressions of the cloud schedules that are followed: well-formed
\* ones, one of four fields, and ones with a step of 0 in the minute, the hour
\* and the weekday field; each search ends within the first hour
CronExprs ==
    { <<"*", " ", "*", " ", "*", " ", "*", " ", "*">>,
      <<"2", " ", "*", " ", "*", " ", "*", " ", "*">>,
      <<"*", "/", "5", " ", "*", " ", "*", " ", "*", " ", "1", "-", "5">>,
      <<"0", "-", "3", "0", "/", "1", "0", " ", "0", " ", "1", " ", "*", " ", "4">>,
      <<"*", " ", "*", " ", "*", " ", "*">>,
      <<"*", "/", "0", " ", "*", " ", "*", " ", "*", " ", "*">>,
      <<"7", " ", "*", "/", "0", " ", "*", " ", "*", " ", "*">>,
      <<"5", "-", "9", "/", "0", " ", "*", " ", "*", " ", "*", " ", "*">>,
      <<"3", " ", "*", " ", "*", " ", "*", " ", "0", "-", "6", "/", "0">> }

\* the from arguments: the last scrub's time, in steps of half a minute
MaxCronFrom == 12
CronFroms == {k * 30 * Second : k \in 0..MaxCronFrom}

\* ------------------------------------------------------------------ init
InitAgentVars ==
    /\ discovery = Idle
    /\ senders = [l \in DispatchLoops |-> Idle]
    /\ loop = Idle
    /\ shutdown = Idle
    /\ start = Idle
    /\ tests = Idle
    /\ zfs_pools = {}
    /\ scrubber = Idle
    /\ collecting = Idle
    /\ reading = Idle
    /\ delivery = Idle
    /\ fair = Idle
    /\ dispatch = Idle
    /\ polled = Idle
    /\ cron = Idle

InitStoreTables ==
    /\ InitAgentVars
    /\ zfs_pool_devices = {}
    /\ upsert = Idle
    /\ observed = NoRead
    /\ applied = NotApplied
    /\ smart_snapshots = {}
    /\ nvme_snapshots = {}
    /\ disks = {}
    /\ zfs_scrub_history = {}
    /\ prune = Idle
    /\ ackApi = NoAlertCalls

InitStoreVars ==
    /\ InitStoreTables
    /\ evaluated = NotEvaluated

InitScheduleVars ==
    /\ cloud_schedules = {}
    /\ effReturn = NoReturn

InitNotifierVars ==
    /\ alerts = <<>>
    /\ notification_queue = <<>>
    /\ lastSent = <<>>
    /\ entries = <<>>
    /\ sendLog = <<>>
    /\ handled = NoAlert

InitCommandVars ==
    /\ commandQueue = <<>>
    /\ pollPending = <<>>
    /\ issued = 0
    /\ proc = Idle
    /\ enqLog = <<>>
    /\ deqLog = <<>>
    /\ dropLog = <<>>
    /\ ackIds = <<>>
    /\ lastAck = NoAck

InitRetryVars ==
    /\ ctxDone = NotCancelled
    /\ snd = Idle
    /\ httpLog = <<>>
    /\ waits = <<>>

DefaultCollectors == [zfs |-> TRUE, smart |-> TRUE, nvme |-> TRUE]

InitSchedule ==
    /\ now = 0
    /\ InitScheduleVars
    /\ cfg = DefaultNotifierConfig
    /\ InitNotifierVars
    /\ svc = DefaultCollectors
    /\ InitCommandVars
    /\ InitRetryVars
    /\ InitStoreVars

InitNotifier ==
    /\ now = 0
    /\ InitScheduleVars
    /\ cfg \in NotifierConfigs
    /\ InitNotifierVars
    /\ svc = DefaultCollectors
    /\ InitCommandVars
    /\ InitRetryVars
    /\ InitStoreVars

\* a notifier with the one webhook channel
InitBackoff ==
    /\ now = 0
    /\ InitScheduleVars
    /\ cfg \in {c \in NotifierConfigs : Len(EnabledChannels(c)) = 1}
    /\ InitNotifierVars
    /\ svc = DefaultCollectors
    /\ InitCommandVars
    /\ InitRetryVars
    /\ InitStoreVars

\* ------------------------------------------------------ actions (schedules)
\* a second passes
ClockTick ==
    /\ now < MaxNow
    /\ now' = now + 1
    /\ effReturn' = NoReturn
    /\ UNCHANGED <<cloud_schedules, notifVars, cmdVars, retryVars, storeVars>>

\* pollAndStoreSchedules with a successful poll: StoreSchedules of the response
PollAndStoreSchedules ==
    \E schedules \in PollResponses :
        /\ cloud_schedules' = StoreSchedules(cloud_schedules, schedules, now)
        /\ effReturn' = NoReturn
        /\ UNCHANGED <<now, notifVars, cmdVars, retryVars, storeVars>>

\* a loop calls getEffectiveInterval(taskType, configInterval)
GetEffectiveInterval ==
    \E taskType \in TaskTypes, configInterval \in ConfigIntervals :
        LET found == GetScheduleForTask(cloud_schedules, taskType) IN
        \E cloudSchedule \in (IF found = {} THEN {Nil} ELSE found) :
            /\ effReturn' = [called |-> TRUE, taskType |-> taskType,
                             configInterval |-> configInterval,
                             interval |-> getEffectiveInterval(cloudSchedule, configInterval)]
            /\ UNCHANGED <<now, cloud_schedules, notifVars, cmdVars, retryVars, storeVars>>

NextSchedule ==
    \/ ClockTick
    \/ PollAndStoreSchedules
    \/ GetEffectiveInterval

SpecSchedule == InitSchedule /\ [][NextSchedule]_vars

\* ------------------------------------------------------- actions (notifier)
\* time passes: one ticker period, or up to the moment the next retry is due
DueTimes ==
    {notification_queue[i].next_retry : i \in
        {j \in DOMAIN notification_queue :
            notification_queue[j].status = "pending" /\ notification_queue[j].next_retry > now}}

AdvanceClock ==
    /\ \E t \in (IF now < MaxFineClock THEN {now + TickerPeriod} ELSE {}) \cup DueTimes :
           now' = t
    /\ handled' = NoAlert
    /\ UNCHANGED <<schedVars, cfg, alerts, notification_queue, lastSent, entries, sendLog, cmdVars, retryVars, storeVars>>

\* Notifier.Send, the body of its loop for one alert
SendAlert(maxAlerts, maxQueue) ==
    \E alert \in AlertInputs(now) :
        LET key == AlertKey(alert)
            skip == \/ ~allowed(cfg.minSeverity, alert.severity)
                    \/ isDebounced(lastSent, key, alert.timestamp, cfg.debounce)
        IN  /\ skip \/ (/\ Len(alerts) < maxAlerts
                         /\ Len(notification_queue) + Len(EnabledChannels(cfg)) <= maxQueue)
            /\ handled' = [alert |-> alert]
            /\ IF skip
               THEN UNCHANGED <<alerts, notification_queue, lastSent, sendLog>>
               ELSE LET channels == EnabledChannels(cfg)
                        alertID == Len(alerts) + 1
                    IN  /\ alerts' = AddAlert(alerts, alert)
                        /\ notification_queue' =
                               EnqueueAll(notification_queue, alertID, channels, now)
                        /\ sendLog' = sendLog \o [k \in 1..Len(channels) |-> <<>>]
                        /\ lastSent' = markSent(lastSent, key, alert.timestamp)
            /\ UNCHANGED <<now, schedVars, cfg, entries, cmdVars, retryVars, storeVars>>

\* processQueue: the ticker fires and processPendingNotifications fetches its batch
WorkerTick ==
    /\ entries = <<>>
    /\ entries' \in GetPendingNotifications(notification_queue, BatchLimit, now)
    /\ handled' = NoAlert
    /\ UNCHANGED <<now, schedVars, cfg, alerts, notification_queue, lastSent, sendLog, cmdVars, retryVars, storeVars>>

\* processPendingNotifications, the body of its loop for the next entry of the
\* batch: the send on the entry's channel fails or succeeds
DeliverEntry(maxFailures) ==
    /\ entries # <<>>
    /\ LET entry == Head(entries) IN
       \E sendOk \in BOOLEAN :
           /\ sendOk \/ TotalFailures < maxFailures
           /\ IF sendOk
              THEN /\ notification_queue' =
                          MarkNotificationSent(notification_queue, entry.id, now)
                   /\ UNCHANGED sendLog
              ELSE LET nextRetry == calculateNextRetry(entry.attempts, now) IN
                   /\ notification_queue' =
                          MarkNotificationFailed(notification_queue, entry.id,
                                                 "send failed", nextRetry, now)
                   /\ sendLog' = [sendLog EXCEPT ![entry.id] = Append(@, nextRetry - now)]
    /\ entries' = Tail(entries)
    /\ handled' = NoAlert
    /\ UNCHANGED <<now, schedVars, cfg, alerts, lastSent, cmdVars, retryVars, storeVars>>

NextNotifier ==
    \/ AdvanceClock
    \/ SendAlert(MaxAlerts, MaxQueue)
    \/ WorkerTick
    \/ DeliverEntry(MaxFailures)

SpecNotifier == InitNotifier /\ [][NextNotifier]_vars

\* the notifier followed through the repeated failures of few entries
NextBackoff ==
    \/ AdvanceClock
    \/ SendAlert(MaxBackoffAlerts, MaxBackoffAlerts)
    \/ WorkerTick
    \/ DeliverEntry(MaxBackoffFailures)

SpecBackoff == InitBackoff /\ [][NextBackoff]_vars

\* ------------------------------------------------------- actions (commands)
InitCommands ==
    /\ now = 0
    /\ InitScheduleVars
    /\ cfg = DefaultNotifierConfig
    /\ InitNotifierVars
    /\ svc \in Collectors
    /\ InitCommandVars
    /\ InitRetryVars
    /\ InitStoreVars

\* runCommandPollLoop up to its loop: PollCommands returns the commands the
\* cloud has pending (a failed poll returns with nothing to offer)
PollCommands ==
    /\ pollPending = <<>>
    /\ \E n \in 1..MaxBatch :
           /\ issued + n <= MaxCmds
           /\ pollPending' = [k \in 1..n |-> CommandOf(issued + k)]
           /\ issued' = issued + n
    /\ UNCHANGED <<now, schedVars, notifVars, svc, commandQueue, proc, enqLog, deqLog,
                   dropLog, ackIds, lastAck, retryVars, storeVars>>

\* runCommandPollLoop, the body of its loop for the next polled command: the
\* non-blocking send, or the drop
EnqueueOrDrop ==
    /\ pollPending # <<>>
    /\ LET cmd == Head(pollPending)
           r == TrySend(commandQueue, cmd, QueueCap)
       IN  /\ commandQueue' = r.queue
           /\ IF r.sent
              THEN enqLog' = Append(enqLog, cmd.id) /\ UNCHANGED dropLog
              ELSE dropLog' = Append(dropLog, [id |-> cmd.id, queued |-> Len(commandQueue)])
                   /\ UNCHANGED enqLog
    /\ pollPending' = Tail(pollPending)
    /\ UNCHANGED <<now, schedVars, notifVars, svc, issued, proc, deqLog, ackIds, lastAck,
                   retryVars, storeVars>>

\* runCommandProcessor: the receive from the queue; processCommand starts
Dequeue ==
    /\ proc = Idle
    /\ commandQueue # <<>>
    /\ LET r == Recv(commandQueue) IN
           /\ commandQueue' = r.queue
           /\ proc' = [pc |-> "action", cmd |-> r.cmd]
           /\ deqLog' = Append(deqLog, r.cmd.id)
    /\ UNCHANGED <<now, schedVars, notifVars, svc, pollPending, issued, enqLog, dropLog,
                   ackIds, lastAck, retryVars, storeVars>>

\* processCommand: the switch on the command's type has run the action
RunAction ==
    /\ proc.pc = "action"
    /\ \E r \in processCommand(proc.cmd, svc) :
           proc' = [pc |-> "ack", cmd |-> proc.cmd, success |-> r.success,
                    errorMsg |-> r.errorMsg, calls |-> r.calls]
    /\ UNCHANGED <<now, schedVars, notifVars, svc, commandQueue, pollPending, issued,
                   enqLog, deqLog, dropLog, ackIds, lastAck, retryVars, storeVars>>

\* processCommand: s.uplink.AcknowledgeCommand(ctx, cmd.ID, success, errorMsg); the
\* processor then returns to its receive
Acknowledge ==
    /\ proc.pc = "ack"
    /\ ackIds' = Append(ackIds, proc.cmd.id)
    /\ lastAck' = [request |-> AcknowledgeCommand(proc.cmd.id, proc.success, proc.errorMsg),
                   cmd |-> proc.cmd, calls |-> proc.calls]
    /\ proc' = Idle
    /\ UNCHANGED <<now, schedVars, notifVars, svc, commandQueue, pollPending, issued,
                   enqLog, deqLog, dropLog, retryVars, storeVars>>

NextCommands ==
    \/ PollCommands
    \/ EnqueueOrDrop
    \/ Dequeue
    \/ RunAction
    \/ Acknowledge

SpecCommands == InitCommands /\ [][NextCommands]_vars

\* ---------------------------------------------------------- actions (retry)
InitRetry ==
    /\ now = 0
    /\ InitScheduleVars
    /\ cfg = DefaultNotifierConfig
    /\ InitNotifierVars
    /\ svc = DefaultCollectors
    /\ InitCommandVars
    /\ InitRetryVars
    /\ InitStoreVars

\* sendWithRetry is called: json.Marshal of the payload, then the loop is entered
StartSend ==
    /\ snd = Idle
    /\ \E marshalOk \in BOOLEAN, endpointOk \in BOOLEAN :
           snd' = IF marshalOk
                  THEN [pc |-> "attempt", attempt |-> 0, backoff |-> Second,
                        lastErr |-> "", endpointOk |-> endpointOk, result |-> ""]
                  ELSE [pc |-> "done", attempt |-> 0, backoff |-> Second,
                        lastErr |-> "", endpointOk |-> endpointOk, result |-> MarshalErr]
    /\ httpLog' = <<>>
    /\ waits' = <<>>
    /\ UNCHANGED <<now, schedVars, notifVars, cmdVars, storeVars, ctxDone>>

\* the loop body after the wait: the request is built and sent; a 2xx response
\* returns nil, anything else is kept as lastErr and the loop goes on, returning
\* lastErr once attempt reaches maxRetries
AttemptSend ==
    /\ snd.pc = "attempt"
    /\ \E outcome \in (IF snd.endpointOk THEN HTTPOutcomes(ctxDone.done) ELSE {"reqerr"}) :
           /\ httpLog' = IF outcome = "reqerr" THEN httpLog
                         ELSE Append(httpLog,
                                     [outcome |-> outcome,
                                      waited |-> IF waits = <<>> THEN 0
                                                 ELSE waits[Len(waits)]])
           /\ snd' = IF outcome = "2xx"
                     THEN [snd EXCEPT !.pc = "done", !.result = ""]
                     ELSE IF snd.attempt + 1 < MaxRetries
                          THEN [snd EXCEPT !.pc = "wait", !.attempt = @ + 1,
                                           !.lastErr = AttemptError(outcome)]
                          ELSE [snd EXCEPT !.pc = "done", !.attempt = @ + 1,
                                           !.lastErr = AttemptError(outcome),
                                           !.result = AttemptError(outcome)]
    /\ UNCHANGED <<now, schedVars, notifVars, cmdVars, storeVars, ctxDone, waits>>

\* the select before a retry: the context is done, or the backoff has passed
WaitBackoff ==
    /\ snd.pc = "wait"
    /\ IF WaitOutcome(ctxDone.done) = "ctx"
       THEN /\ snd' = [snd EXCEPT !.pc = "done", !.result = CtxErr]
            /\ UNCHANGED waits
       ELSE /\ snd' = [snd EXCEPT !.pc = "attempt", !.backoff = DoubleBackoff(@)]
            /\ waits' = Append(waits, snd.backoff)
    /\ UNCHANGED <<now, schedVars, notifVars, cmdVars, storeVars, ctxDone, httpLog>>

\* the call has returned to its caller
ReturnSend ==
    /\ snd.pc = "done"
    /\ snd' = Idle
    /\ UNCHANGED <<now, schedVars, notifVars, cmdVars, storeVars, ctxDone, httpLog, waits>>

\* the caller's context is cancelled
CancelContext ==
    /\ ~ctxDone.done
    /\ ctxDone' = [done |-> TRUE, at |-> snd.pc]
    /\ UNCHANGED <<now, schedVars, notifVars, cmdVars, storeVars, snd, httpLog, waits>>

NextRetry ==
    \/ StartSend
    \/ AttemptSend
    \/ WaitBackoff
    \/ ReturnSend
    \/ CancelContext

SpecRetry == InitRetry /\ [][NextRetry]_vars

\* --------------------------------------------------- actions (pool devices)
InitPoolDevices ==
    /\ now = 0
    /\ InitScheduleVars
    /\ cfg = DefaultNotifierConfig
    /\ InitNotifierVars
    /\ svc = DefaultCollectors
    /\ InitCommandVars
    /\ InitRetryVars
    /\ InitStoreVars

\* UpsertPoolDevices is called and its DELETE statement has run, in its own
\* implicit transaction
UpsertDelete ==
    /\ upsert.pc \in {"idle", "returned"}
    /\ \E poolName \in Pools, in \in PoolStatusInputs :
           /\ zfs_pool_devices' = DeletePoolDevices(zfs_pool_devices, poolName)
           /\ upsert' = [pc |-> "insert", pool |-> poolName, todo |-> in.deviceIDs,
                         vdevType |-> in.vdevType,
                         before |-> GetPoolDevices(zfs_pool_devices, poolName),
                         target |-> DeviceIds(in.deviceIDs), failed |-> FALSE]
    /\ UNCHANGED <<now, schedVars, notifVars, cmdVars, retryVars, othersOfPool, observed>>

\* UpsertPoolDevices, the body of its loop for the next device id: an empty id
\* is skipped, the INSERT statement runs on its own, and its error is ignored
UpsertInsert ==
    /\ upsert.pc = "insert"
    /\ upsert.todo # <<>>
    /\ LET diskID == Head(upsert.todo) IN
       IF diskID = ""
       THEN /\ upsert' = [upsert EXCEPT !.todo = Tail(@)]
            /\ UNCHANGED zfs_pool_devices
       ELSE \E ok \in BOOLEAN :
               /\ zfs_pool_devices' =
                      IF ok
                      THEN InsertPoolDevice(zfs_pool_devices, upsert.pool, diskID,
                                            upsert.vdevType)
                      ELSE zfs_pool_devices
               /\ upsert' = [upsert EXCEPT !.todo = Tail(@), !.failed = @ \/ ~ok]
    /\ UNCHANGED <<now, schedVars, notifVars, cmdVars, retryVars, othersOfPool, observed>>

\* UpsertPoolDevices returns nil after its loop
UpsertReturn ==
    /\ upsert.pc = "insert"
    /\ upsert.todo = <<>>
    /\ upsert' = [upsert EXCEPT !.pc = "returned"]
    /\ UNCHANGED <<now, schedVars, notifVars, cmdVars, retryVars, othersOfPool, zfs_pool_devices,
                   observed>>

\* a reader calls GetPoolDevices; kept with it are the pool's mapping before
\* the replacement in progress and the mapping that replacement is to install
ReadPoolDevices ==
    /\ \E poolName \in Pools :
           LET current == GetPoolDevices(zfs_pool_devices, poolName)
               replacing == upsert.pc = "insert" /\ upsert.pool = poolName
           IN  observed' = [pool |-> poolName, devices |-> current,
                            before |-> IF replacing THEN upsert.before ELSE current,
                            target |-> IF replacing THEN upsert.target ELSE current]
    /\ UNCHANGED <<now, schedVars, notifVars, cmdVars, retryVars, othersOfPool, zfs_pool_devices,
                   upsert>>

NextPoolDevices ==
    \/ UpsertDelete
    \/ UpsertInsert
    \/ UpsertReturn
    \/ ReadPoolDevices

SpecPoolDevices == InitPoolDevices /\ [][NextPoolDevices]_vars

\* ------------------------------------------------- actions (StoreSchedules)
InitStoreTwice ==
    /\ now = 0
    /\ InitScheduleVars
    /\ cfg = DefaultNotifierConfig
    /\ InitNotifierVars
    /\ svc = DefaultCollectors
    /\ InitCommandVars
    /\ InitRetryVars
    /\ InitStoreVars

\* StoreSchedules is called with a list
StoreBegin ==
    /\ applied.pc \in {"idle", "done"}
    /\ applied.calls < MaxStores
    /\ \E L \in StoreLists :
           applied' = [pc |-> "store", calls |-> applied.calls + 1, schedules |-> L,
                       todo |-> L, round |-> 1, once |-> {}]
    /\ UNCHANGED <<now, schedVars, notifVars, cmdVars, retryVars, othersOfApplied>>

\* StoreSchedules, the body of its loop for the next schedule: one statement,
\* with its own datetime('now')
StoreStatement ==
    /\ applied.pc = "store"
    /\ applied.todo # <<>>
    /\ cloud_schedules' = UpsertSchedule(cloud_schedules, Head(applied.todo), now)
    /\ applied' = [applied EXCEPT !.todo = Tail(@)]
    /\ UNCHANGED <<now, effReturn, notifVars, cmdVars, retryVars, othersOfApplied>>

\* StoreSchedules returns nil; the table as the first application of the list
\* left it is kept
StoreReturn ==
    /\ applied.pc = "store"
    /\ applied.todo = <<>>
    /\ applied' = [applied EXCEPT !.pc = "done",
                                  !.once = IF applied.round = 1 THEN cloud_schedules ELSE @]
    /\ UNCHANGED <<now, schedVars, notifVars, cmdVars, retryVars, othersOfApplied>>

\* StoreSchedules is called again with the list of the call before
StoreAgain ==
    /\ applied.pc = "done"
    /\ applied.round = 1
    /\ applied' = [applied EXCEPT !.pc = "store", !.todo = applied.schedules, !.round = 2]
    /\ UNCHANGED <<now, schedVars, notifVars, cmdVars, retryVars, othersOfApplied>>

NextStoreTwice ==
    \/ ClockTick
    \/ StoreBegin
    \/ StoreStatement
    \/ StoreReturn
    \/ StoreAgain

SpecStoreTwice == InitStoreTwice /\ [][NextStoreTwice]_vars

\* --------------------------------------------------------- actions (prune)
InitPrune ==
    /\ now = 0
    /\ InitScheduleVars
    /\ cfg = DefaultNotifierConfig
    /\ InitNotifierVars
    /\ svc = DefaultCollectors
    /\ InitCommandVars
    /\ InitRetryVars
    /\ InitStoreVars

\* time passes to a later one of the moments
PruneClock ==
    \E t \in PruneTimes :
        /\ t > now
        /\ now' = t
        /\ UNCHANGED <<schedVars, notifVars, cmdVars, retryVars, storeVars>>

\* discovery: UpsertDisk of a disk found
DiscoverDisk ==
    \E id \in DiskIds :
        /\ id # ""
        /\ disks' = disks \cup {id}
        /\ UNCHANGED <<now, schedVars, notifVars, cmdVars, retryVars, othersOfPrune,
                       smart_snapshots, nvme_snapshots, zfs_scrub_history, prune>>

\* the SMART collector: AddSmartSnapshot with Timestamp = time.Now().Unix()
\* (rows that differ only in their autoincrement id are one element here)
CollectSmart ==
    \E id \in disks :
        /\ Cardinality(smart_snapshots) < MaxSnapshots
        /\ smart_snapshots' = smart_snapshots \cup {[disk_id |-> id, timestamp |-> now]}
        /\ UNCHANGED <<now, schedVars, notifVars, cmdVars, retryVars, othersOfPrune,
                       nvme_snapshots, disks, zfs_scrub_history, prune>>

\* the NVMe collector: AddNvmeSnapshot with Timestamp = time.Now().Unix()
CollectNvme ==
    \E id \in disks :
        /\ Cardinality(nvme_snapshots) < MaxSnapshots
        /\ nvme_snapshots' = nvme_snapshots \cup {[disk_id |-> id, timestamp |-> now]}
        /\ UNCHANGED <<now, schedVars, notifVars, cmdVars, retryVars, othersOfPrune,
                       smart_snapshots, disks, zfs_scrub_history, prune>>

\* the ZFS collector records a scrub: AddScrubHistory
RecordScrub ==
    /\ zfs_scrub_history = {}
    /\ zfs_scrub_history' = {[pool_name |-> "tank", start_time |-> now]}
    /\ UNCHANGED <<now, schedVars, notifVars, cmdVars, retryVars, othersOfPrune,
                   smart_snapshots, nvme_snapshots, disks, prune>>

\* the evaluator stores an alert: AddAlert
RaiseAlert ==
    \E a \in DiskAlerts(now) :
        /\ Len(alerts) < MaxPruneAlerts
        /\ alerts' = AddAlert(alerts, a)
        /\ UNCHANGED <<now, schedVars, othersOfAlerts, cmdVars, retryVars, storeVars>>

\* PruneOldSnapshots is entered with the argument days
PruneCall(days, task) ==
    /\ prune.pc \in {"idle", "returned"}
    /\ prune' = [pc |-> "smart", days |-> days, n |-> EffectiveDays(days),
                 task |-> task, removed |-> {}, err |-> FALSE]
    /\ UNCHANGED <<now, schedVars, notifVars, cmdVars, retryVars, othersOfPrune,
                   smart_snapshots, nvme_snapshots, disks, zfs_scrub_history>>

PruneOldSnapshotsCall == \E days \in PruneDaysInputs : PruneCall(days, FALSE)

\* the daily task: runPruneLoop calls PruneOldSnapshots(ctx, 90)
RunPruneLoop == PruneCall(90, TRUE)

\* the first statement, which succeeds or fails; a failure returns the error
PruneSmart ==
    /\ prune.pc = "smart"
    /\ \E ok \in BOOLEAN :
        IF ok
        THEN /\ smart_snapshots' = DeleteOlder(smart_snapshots, PruneCutoff(now, prune.n))
             /\ prune' = [prune EXCEPT !.pc = "nvme",
                            !.removed = @ \cup {<<"smart", r>> :
                                                r \in smart_snapshots \ smart_snapshots'}]
        ELSE /\ smart_snapshots' = smart_snapshots
             /\ prune' = [prune EXCEPT !.pc = "returned", !.err = TRUE]
    /\ UNCHANGED <<now, schedVars, notifVars, cmdVars, retryVars, othersOfPrune,
                   nvme_snapshots, disks, zfs_scrub_history>>

\* the second statement; its error is the call's result
PruneNvme ==
    /\ prune.pc = "nvme"
    /\ \E ok \in BOOLEAN :
        IF ok
        THEN /\ nvme_snapshots' = DeleteOlder(nvme_snapshots, PruneCutoff(now, prune.n))
             /\ prune' = [prune EXCEPT !.pc = "returned",
                            !.removed = @ \cup {<<"nvme", r>> :
                                                r \in nvme_snapshots \ nvme_snapshots'}]
        ELSE /\ nvme_snapshots' = nvme_snapshots
             /\ prune' = [prune EXCEPT !.pc = "returned", !.err = TRUE]
    /\ UNCHANGED <<now, schedVars, notifVars, cmdVars, retryVars, othersOfPrune,
                   smart_snapshots, disks, zfs_scrub_history>>

NextPrune ==
    \/ PruneClock
    \/ DiscoverDisk
    \/ CollectSmart
    \/ CollectNvme
    \/ RecordScrub
    \/ RaiseAlert
    \/ PruneOldSnapshotsCall
    \/ RunPruneLoop
    \/ PruneSmart
    \/ PruneNvme

SpecPrune == InitPrune /\ [][NextPrune]_vars

\* ---------------------------------------------------- actions (alerts API)
InitAlertsApi ==
    /\ now = 0
    /\ InitScheduleVars
    /\ cfg = DefaultNotifierConfig
    /\ InitNotifierVars
    /\ svc = DefaultCollectors
    /\ InitCommandVars
    /\ InitRetryVars
    /\ InitStoreVars

\* AddAlert(a) returns the new row's id
AddAlertCall ==
    \E t \in AlertTimes :
        \E a \in AlertInputs(t) :
            /\ Len(alerts) < MaxAckAlerts
            /\ alerts' = AddAlert(alerts, a)
            /\ ackApi' = [ackApi EXCEPT !.added = Append(@, a)]
            /\ UNCHANGED <<now, schedVars, othersOfAlerts, cmdVars, retryVars,
                           othersOfAckApi>>

\* POST (or another method) on /api/v1/alerts/<id>/acknowledge
HandleAcknowledgeAlert ==
    \E method \in {"POST", "GET"}, alertID \in 0..(MaxAckAlerts + 1), ok \in BOOLEAN :
        IF method # "POST"
        THEN /\ ackApi' = [ackApi EXCEPT !.resp = [pc |-> "done", method |-> method,
                                                   id |-> alertID, status |-> 405,
                                                   err |-> "nil", before |-> alerts,
                                                   after |-> alerts]]
             /\ UNCHANGED <<now, schedVars, notifVars, cmdVars, retryVars, othersOfAckApi>>
        ELSE LET r == AcknowledgeAlert(alerts, alertID, ok)
             IN  /\ alerts' = r.table
                 /\ ackApi' = [ackApi EXCEPT
                                 !.acked = IF r.err = "nil" THEN @ \cup {alertID} ELSE @,
                                 !.resp = [pc |-> "done", method |-> method, id |-> alertID,
                                           status |-> AcknowledgeStatus(r.err),
                                           err |-> r.err, before |-> alerts,
                                           after |-> r.table]]
                 /\ UNCHANGED <<now, schedVars, othersOfAlerts, cmdVars, retryVars,
                                othersOfAckApi>>

NextAlertsApi ==
    \/ AddAlertCall
    \/ HandleAcknowledgeAlert

SpecAlertsApi == InitAlertsApi /\ [][NextAlertsApi]_vars

\* -------------------------------------------------------- actions (health)
\* a provider with its configuration, and what the store lists when Summary runs
InitHealth ==
    /\ now = EvaluationTime
    /\ InitScheduleVars
    /\ cfg = DefaultNotifierConfig
    /\ InitNotifierVars
    /\ svc = DefaultCollectors
    /\ InitCommandVars
    /\ InitRetryVars
    /\ InitStoreTables
    /\ evaluated \in {[pc |-> "disks", cfg |-> c, disks |-> l.disks, pools |-> l.pools,
                       dh |-> <<>>, ph |-> <<>>, alerts |-> <<>>, status |-> ""] :
                          c \in HealthConfigs, l \in ListingInputs}

\* Summary's loop over the disks: evaluateDisk of the next one, with what LatestSmart
\* and SmartHistory, or LatestNvme and NvmeHistory, return for it
SummaryDisk ==
    /\ evaluated.pc = "disks"
    /\ Len(evaluated.dh) < Len(evaluated.disks)
    /\ LET d == evaluated.disks[Len(evaluated.dh) + 1]
       IN  \E snap \in IF d.Type = "nvme" THEN NvmeSnapInputs ELSE SmartSnapInputs,
              history \in IF d.Type = "nvme" THEN NvmeHistoryInputs ELSE SmartHistoryInputs :
               LET r == evaluateDisk(evaluated.cfg, d, snap, history, now)
               IN  evaluated' = [evaluated EXCEPT !.dh = Append(@, r.health),
                                                  !.alerts = @ \o r.alerts]
    /\ UNCHANGED <<now, schedVars, notifVars, cmdVars, retryVars, othersOfEvaluated>>

\* Summary's loop over the pools: evaluatePool of the next one
SummaryPool ==
    /\ evaluated.pc = "disks"
    /\ Len(evaluated.dh) = Len(evaluated.disks)
    /\ Len(evaluated.ph) < Len(evaluated.pools)
    /\ LET r == evaluatePool(evaluated.cfg, evaluated.pools[Len(evaluated.ph) + 1], now)
       IN  evaluated' = [evaluated EXCEPT !.ph = Append(@, r.health),
                                          !.alerts = @ \o r.alerts]
    /\ UNCHANGED <<now, schedVars, notifVars, cmdVars, retryVars, othersOfEvaluated>>

\* ListDisks or ListPools fails: Summary returns the error and an empty report
SummaryError ==
    /\ evaluated.pc = "disks"
    /\ evaluated.ph = <<>>
    /\ evaluated.dh = <<>> \/ Len(evaluated.dh) = Len(evaluated.disks)
    /\ evaluated' = [evaluated EXCEPT !.pc = "failed", !.dh = <<>>, !.alerts = <<>>]
    /\ UNCHANGED <<now, schedVars, notifVars, cmdVars, retryVars, othersOfEvaluated>>

\* the end of Summary: persistAlerts, whose error is only logged, and the status
SummaryReturn ==
    /\ evaluated.pc = "disks"
    /\ Len(evaluated.dh) = Len(evaluated.disks)
    /\ Len(evaluated.ph) = Len(evaluated.pools)
    /\ \E stored \in 0..Len(evaluated.alerts) :
           alerts' = persistAlerts(alerts, evaluated.alerts, stored)
    /\ evaluated' = [evaluated EXCEPT !.pc = "done",
                                      !.status = CompositeStatus(evaluated.alerts)]
    /\ UNCHANGED <<now, schedVars, othersOfAlerts, cmdVars, retryVars, othersOfEvaluated>>

NextHealth ==
    \/ SummaryDisk
    \/ SummaryPool
    \/ SummaryError
    \/ SummaryReturn

SpecHealth == InitHealth /\ [][NextHealth]_vars

\* ----------------------------------------------------- actions (discovery)
InitDiscovery ==
    /\ now = 0
    /\ InitScheduleVars
    /\ cfg = DefaultNotifierConfig
    /\ InitNotifierVars
    /\ svc = DefaultCollectors
    /\ InitCommandVars
    /\ InitRetryVars
    /\ InitStoreVars

\* discovery.NewWithConfig
NewDiscovery ==
    /\ discovery = Idle
    /\ \E c \in DiscoveryConfigs : discovery' = [pc |-> "ready", cfg |-> c, pass |-> NoPass]
    /\ UNCHANGED <<now, schedVars, notifVars, cmdVars, retryVars, othersOfAgent_discovery>>

\* Service.RunOnce: scan, filter, upsert every survivor (a failed upsert is logged),
\* then the pools' device mappings if ZFS is enabled
RunOnce ==
    /\ discovery.pc = "ready"
    /\ \E sysBlock \in SysBlockInputs, byId \in ByIdInputs,
          failing \in {{}, {1}}, zfs \in ZfsDiscoveryInputs :
        IF sysBlock.err
        THEN /\ discovery' = [discovery EXCEPT !.pass = [err |-> TRUE]]
             /\ UNCHANGED <<disks, zfs_pool_devices>>
        ELSE LET scanned == scanSysBlock(sysBlock.entries, byId)
                 filtered == filterDevices(discovery.cfg, scanned)
                 stored == {filtered[k].ID : k \in DOMAIN filtered \ failing}
             IN  /\ disks' = disks \cup stored
                 /\ zfs_pool_devices' =
                        IF discovery.cfg.ZFSEnable /\ zfs # NoRead
                        THEN InsertPoolDevices(DeletePoolDevices(zfs_pool_devices, "tank"),
                                               "tank", zfs.deviceIDs, zfs.vdevType)
                        ELSE zfs_pool_devices
                 /\ discovery' = [discovery EXCEPT !.pass =
                                      [err |-> FALSE, sysBlock |-> sysBlock.entries,
                                       scanned |-> scanned, upserted |-> filtered]]
    /\ UNCHANGED <<now, schedVars, notifVars, cmdVars, retryVars, upsert, observed, applied,
                   smart_snapshots, nvme_snapshots, zfs_scrub_history, prune, ackApi,
                   evaluated, restOfAgent_discovery>>

NextDiscovery ==
    \/ NewDiscovery
    \/ RunOnce

SpecDiscovery == InitDiscovery /\ [][NextDiscovery]_vars

\* --------------------------------------------- actions (concurrent Send)
InitConcurrentSend == InitNotifier

\* Send on the goroutine of one caller, up to the return of isDebounced (which
\* holds n.mu for the lookup only)
SendCheck(caller) ==
    /\ senders[caller] = Idle
    /\ \E alert \in AlertInputs(now) :
           /\ allowed(cfg.minSeverity, alert.severity)
           /\ ~isDebounced(lastSent, AlertKey(alert), alert.timestamp, cfg.debounce)
           /\ senders' = [senders EXCEPT ![caller] = [pc |-> "store", alert |-> alert]]
    /\ handled' = NoAlert
    /\ UNCHANGED <<now, schedVars, cfg, alerts, notification_queue, lastSent, entries, sendLog,
                   cmdVars, retryVars, othersOfAgent_senders>>

\* the same call from store.AddAlert through the EnqueueNotification calls; an
\* alert that could not be stored is given up
SendStore(caller) ==
    /\ senders[caller].pc = "store"
    /\ \E stored \in BOOLEAN :
           IF stored
           THEN LET channels == EnabledChannels(cfg)
                    alertID == Len(alerts) + 1
                IN  /\ Len(alerts) < MaxAlerts
                    /\ alerts' = AddAlert(alerts, senders[caller].alert)
                    /\ notification_queue' =
                           EnqueueAll(notification_queue, alertID, channels, now)
                    /\ sendLog' = sendLog \o [k \in 1..Len(channels) |-> <<>>]
                    /\ senders' = [senders EXCEPT ![caller].pc = "mark"]
           ELSE /\ senders' = [senders EXCEPT ![caller] = Idle]
                /\ UNCHANGED <<alerts, notification_queue, sendLog>>
    /\ handled' = NoAlert
    /\ UNCHANGED <<now, schedVars, cfg, lastSent, entries, cmdVars, retryVars,
                   othersOfAgent_senders>>

\* the same call in markSent, which takes n.mu again
SendMark(caller) ==
    /\ senders[caller].pc = "mark"
    /\ lastSent' = markSent(lastSent, AlertKey(senders[caller].alert),
                            senders[caller].alert.timestamp)
    /\ senders' = [senders EXCEPT ![caller] = Idle]
    /\ handled' = NoAlert
    /\ UNCHANGED <<now, schedVars, cfg, alerts, notification_queue, entries, sendLog,
                   cmdVars, retryVars, othersOfAgent_senders>>

NextConcurrentSend ==
    \/ AdvanceClock
    \/ \E caller \in DispatchLoops : SendCheck(caller)
    \/ \E caller \in DispatchLoops : SendStore(caller)
    \/ \E caller \in DispatchLoops : SendMark(caller)

SpecConcurrentSend == InitConcurrentSend /\ [][NextConcurrentSend]_vars

\* ------------------------------------------ actions (schedule-aware loop)
InitLoop == InitSchedule

LoopClock ==
    /\ now < MaxLoopClock
    /\ now' = now + LoopClockStep
    /\ UNCHANGED <<schedVars, notifVars, cmdVars, retryVars, storeVars>>

\* pollAndStoreSchedules with a successful poll
PollLoopSchedules ==
    \E schedules \in LoopPollResponses :
        /\ cloud_schedules' = StoreSchedules(cloud_schedules, schedules, now)
        /\ UNCHANGED <<now, effReturn, notifVars, cmdVars, retryVars, storeVars>>

\* Start launches the loop of a task; runLoopWithSchedule up to its first
\* time.NewTicker
StartLoop ==
    /\ loop = Idle
    /\ \E taskType \in LoopTasks, configInterval \in LoopConfigIntervals :
           /\ taskType \in StartedIfPositive => configInterval > 0
           /\ LET interval == IF configInterval <= 0 THEN Hour ELSE configInterval
              IN  loop' = [pc |-> "top", taskType |-> taskType,
                           configInterval |-> configInterval, interval |-> interval,
                           nextTick |-> now + interval, armed |-> {interval},
                           cron |-> Nil, prevRun |-> NULL, lastRun |-> NULL]
    /\ UNCHANGED <<now, schedVars, notifVars, cmdVars, retryVars, othersOfAgent_loop>>

\* one turn of the for loop up to the select: getEffectiveInterval, a new ticker
\* if the interval changed (time.NewTicker panics on a period that is not
\* positive), then fn(ctx)
LoopIterate ==
    /\ loop # Idle
    /\ loop.pc = "top"
    /\ LET found == GetScheduleForTask(cloud_schedules, loop.taskType) IN
       \E cloudSchedule \in (IF found = {} THEN {Nil} ELSE found) :
           LET effectiveInterval == getEffectiveInterval(cloudSchedule, loop.configInterval)
               rearm == effectiveInterval # loop.interval
               armed == IF rearm THEN loop.armed \cup {effectiveInterval} ELSE loop.armed
           IN  IF rearm /\ effectiveInterval <= 0
               THEN loop' = [loop EXCEPT !.pc = "panic", !.armed = armed]
               ELSE loop' = [loop EXCEPT
                       !.pc = "wait",
                       !.interval = effectiveInterval,
                       !.armed = armed,
                       !.nextTick = IF rearm THEN now + effectiveInterval ELSE @,
                       !.cron = IF cloudSchedule # Nil /\ cloudSchedule.schedule_type = "CRON"
                                THEN [expr |-> cloudSchedule.schedule_value] ELSE Nil,
                       !.prevRun = loop.lastRun,
                       !.lastRun = now]
    /\ UNCHANGED <<now, schedVars, notifVars, cmdVars, retryVars, othersOfAgent_loop>>

\* the select receives from ticker.C
LoopWake ==
    /\ loop # Idle
    /\ loop.pc = "wait"
    /\ now >= loop.nextTick
    /\ loop' = [loop EXCEPT !.pc = "top", !.nextTick = @ + loop.interval]
    /\ UNCHANGED <<now, schedVars, notifVars, cmdVars, retryVars, othersOfAgent_loop>>

NextLoop ==
    \/ LoopClock
    \/ PollLoopSchedules
    \/ StartLoop
    \/ LoopIterate
    \/ LoopWake

SpecLoop == InitLoop /\ [][NextLoop]_vars

\* ----------------------------------------------- actions (cancellation)
InitShutdown == InitSchedule

\* notifier.Start and Scheduler.Start have launched the worker, a periodic loop
\* (runLoop and runLoopWithSchedule call fn before their first select) and the
\* command processor
LaunchGoroutines ==
    /\ shutdown = Idle
    /\ shutdown' = [pc |-> "running", cancelled |-> FALSE, stopChan |-> "open",
                    loopPc |-> "fn", loopTick |-> FALSE, lateBody |-> FALSE,
                    procPc |-> "select", pending |-> 0, lateCommand |-> FALSE,
                    workerPc |-> "select", workerTick |-> FALSE, stopPc |-> "none"]
    /\ UNCHANGED <<now, schedVars, notifVars, cmdVars, retryVars, othersOfAgent_shutdown>>

Running == shutdown # Idle

ShutdownStep(next) ==
    /\ Running
    /\ shutdown' = next
    /\ UNCHANGED <<now, schedVars, notifVars, cmdVars, retryVars, othersOfAgent_shutdown>>

\* the root context is cancelled
CancelRoot ==
    /\ Running /\ ~shutdown.cancelled
    /\ ShutdownStep([shutdown EXCEPT !.cancelled = TRUE])

\* the loop's ticker delivers a tick into its channel of capacity one
LoopTickerFires ==
    /\ Running /\ shutdown.loopPc # "exited" /\ ~shutdown.loopTick
    /\ ShutdownStep([shutdown EXCEPT !.loopTick = TRUE])

\* fn(ctx) of the loop runs and returns
LoopBody ==
    /\ Running /\ shutdown.loopPc = "fn"
    /\ ShutdownStep([shutdown EXCEPT !.loopPc = "select"])

\* the loop's select takes <-ctx.Done()
LoopSelectDone ==
    /\ Running /\ shutdown.loopPc = "select" /\ shutdown.cancelled
    /\ ShutdownStep([shutdown EXCEPT !.loopPc = "exited"])

\* the loop's select takes <-ticker.C
LoopSelectTick ==
    /\ Running /\ shutdown.loopPc = "select" /\ shutdown.loopTick
    /\ ShutdownStep([shutdown EXCEPT !.loopPc = "fn", !.loopTick = FALSE,
                                     !.lateBody = @ \/ shutdown.cancelled])

\* runCommandPollLoop puts a command into the queue
CommandQueued ==
    /\ Running /\ shutdown.pending < MaxPendingCmds /\ ~shutdown.cancelled
    /\ ShutdownStep([shutdown EXCEPT !.pending = @ + 1])

\* the processor's select takes <-ctx.Done()
ProcSelectDone ==
    /\ Running /\ shutdown.procPc = "select" /\ shutdown.cancelled
    /\ ShutdownStep([shutdown EXCEPT !.procPc = "exited"])

\* the processor's select takes a command, and processCommand handles it
ProcSelectCommand ==
    /\ Running /\ shutdown.procPc = "select" /\ shutdown.pending > 0
    /\ ShutdownStep([shutdown EXCEPT !.pending = @ - 1,
                                     !.lateCommand = @ \/ shutdown.cancelled])

\* the worker's ticker delivers a tick
WorkerTickerFires ==
    /\ Running /\ shutdown.workerPc # "exited" /\ ~shutdown.workerTick
    /\ ShutdownStep([shutdown EXCEPT !.workerTick = TRUE])

\* the worker's select takes <-n.stopChan or <-ctx.Done(); the deferred wg.Done runs
WorkerSelectExit ==
    /\ Running /\ shutdown.workerPc = "select"
    /\ shutdown.stopChan = "closed" \/ shutdown.cancelled
    /\ ShutdownStep([shutdown EXCEPT !.workerPc = "exited"])

\* the worker's select takes <-ticker.C, and processPendingNotifications runs
WorkerSelectTick ==
    /\ Running /\ shutdown.workerPc = "select" /\ shutdown.workerTick
    /\ ShutdownStep([shutdown EXCEPT !.workerTick = FALSE])

\* Notifier.Stop: close(n.stopChan)
StopClose ==
    /\ Running /\ shutdown.stopPc = "none"
    /\ ShutdownStep([shutdown EXCEPT !.stopChan = "closed", !.stopPc = "wait"])

\* Notifier.Stop: n.wg.Wait() returns
StopReturn ==
    /\ Running /\ shutdown.stopPc = "wait" /\ shutdown.workerPc = "exited"
    /\ ShutdownStep([shutdown EXCEPT !.stopPc = "returned"])

NextShutdown ==
    \/ LaunchGoroutines
    \/ CancelRoot
    \/ LoopTickerFires
    \/ LoopBody
    \/ LoopSelectDone
    \/ LoopSelectTick
    \/ CommandQueued
    \/ ProcSelectDone
    \/ ProcSelectCommand
    \/ WorkerTickerFires
    \/ WorkerSelectExit
    \/ WorkerSelectTick
    \/ StopClose
    \/ StopReturn

SpecShutdown == InitShutdown /\ [][NextShutdown]_vars

\* ------------------------------------------------------- actions (Start)
InitStart == InitSchedule

\* Scheduler.Start is called
StartCall ==
    /\ start = Idle
    /\ \E once \in BOOLEAN, cloudEnabled \in BOOLEAN :
           start' = [once |-> once, cloudEnabled |-> cloudEnabled, at |-> 1, log |-> <<>>,
                     launched |-> FALSE, listed |-> NoRead, discovered |-> {},
                     polled |-> {}, firstRun |-> [l \in CollectorLoops |-> NoRead]]
    /\ UNCHANGED <<now, schedVars, notifVars, cmdVars, retryVars, othersOfAgent_start>>

\* the statement Start stands at
Statement ==
    IF start = Idle THEN "none"
    ELSE LET seq == startSequence(start.once, start.cloudEnabled)
         IN  IF start.at > Len(seq) THEN "return" ELSE seq[start.at]

Advance(label) == [start EXCEPT !.at = @ + 1, !.log = Append(@, label)]

\* pollAndStoreSchedules at startup: a failed poll is logged and changes nothing
StartPollSchedules ==
    /\ Statement = "pollAndStoreSchedules"
    /\ \E poll \in StartupPolls :
           IF poll = NoRead
           THEN /\ start' = Advance("pollAndStoreSchedules")
                /\ UNCHANGED cloud_schedules
           ELSE /\ cloud_schedules' = StoreSchedules(cloud_schedules, poll.schedules, now)
                /\ start' = [Advance("pollAndStoreSchedules") EXCEPT
                                !.polled = {poll.schedules[k].id : k \in DOMAIN poll.schedules}]
    /\ UNCHANGED <<now, effReturn, notifVars, cmdVars, retryVars, othersOfAgent_start>>

\* s.discovery.RunOnce(ctx), its error dropped
StartDiscovery ==
    /\ Statement = "discovery.RunOnce"
    /\ \E found \in FoundDisks :
           /\ disks' = disks \cup found
           /\ start' = [Advance("discovery.RunOnce") EXCEPT !.discovered = found]
    /\ UNCHANGED <<now, schedVars, notifVars, cmdVars, retryVars, poolVars, applied,
                   smart_snapshots, nvme_snapshots, zfs_scrub_history, prune, ackApi,
                   evaluated, restOfAgent_start>>

\* the go statements of Start
StartLaunchLoops ==
    /\ Statement = "go loops"
    /\ start' = [Advance("go loops") EXCEPT !.launched = TRUE]
    /\ UNCHANGED <<now, schedVars, notifVars, cmdVars, retryVars, othersOfAgent_start>>

\* runOnce: disks, _ := s.store.ListDisks(ctx)
OnceListDisks ==
    /\ Statement = "ListDisks"
    /\ start' = [Advance("ListDisks") EXCEPT !.listed = [disks |-> disks]]
    /\ UNCHANGED <<now, schedVars, notifVars, cmdVars, retryVars, othersOfAgent_start>>

\* runOnce: one of the three collections, or the health dispatch
OnceCollect ==
    /\ Statement \in {"smart.Collect", "nvme.Collect", "zfs.Collect", "dispatchHealth"}
    /\ start' = Advance(Statement)
    /\ UNCHANGED <<now, schedVars, notifVars, cmdVars, retryVars, othersOfAgent_start>>

\* a launched collector loop runs its body for the first time: it reads the
\* disk list, and its loop the schedules
LoopFirstRun ==
    /\ start # Idle
    /\ start.launched
    /\ \E l \in CollectorLoops :
           /\ start.firstRun[l] = NoRead
           /\ start' = [start EXCEPT !.firstRun[l] =
                            [disks |-> disks,
                             schedules |-> {r.id : r \in cloud_schedules}]]
    /\ UNCHANGED <<now, schedVars, notifVars, cmdVars, retryVars, othersOfAgent_start>>

\* the launched discovery loop runs a pass
DiscoveryLoopRun ==
    /\ start # Idle
    /\ start.launched
    /\ \E found \in FoundDisks : found # {} /\ disks' = disks \cup found
    /\ UNCHANGED <<now, schedVars, notifVars, cmdVars, retryVars, poolVars, applied,
                   smart_snapshots, nvme_snapshots, zfs_scrub_history, prune, ackApi,
                   evaluated, agentVars>>

NextStart ==
    \/ StartCall
    \/ StartPollSchedules
    \/ StartDiscovery
    \/ StartLaunchLoops
    \/ OnceListDisks
    \/ OnceCollect
    \/ LoopFirstRun
    \/ DiscoveryLoopRun

SpecStart == InitStart /\ [][NextStart]_vars

\* ----------------------------------------------- actions (SMART self-tests)
InitSmartTests ==
    /\ now = FirstTestClock
    /\ InitScheduleVars
    /\ cfg = DefaultNotifierConfig
    /\ InitNotifierVars
    /\ svc = DefaultCollectors
    /\ InitCommandVars
    /\ InitRetryVars
    /\ InitStoreVars

TestClock ==
    /\ now < LastTestClock
    /\ now' = now + Minute
    /\ UNCHANGED <<schedVars, notifVars, cmdVars, retryVars, storeVars>>

\* Start launches the self-test loops
LaunchSmartTests ==
    /\ tests = Idle
    /\ tests' = [pc |-> "running", table |-> {}, log |-> <<>>, runs |-> 0,
                 runLog |-> <<>>, ranAt |-> [tt \in TestTypes |-> NULL]]
    /\ UNCHANGED <<now, schedVars, notifVars, cmdVars, retryVars, othersOfAgent_tests>>

\* runSmartTestsScheduler(ctx, testType, interval) at a tick of the loop of the
\* test type
RunSmartTestsScheduler ==
    /\ tests # Idle
    /\ tests.runs < MaxTestRuns
    /\ \E testType \in TestTypes, outcome \in [{"sda", "sdb"} -> TestOutcomes] :
           /\ tests.ranAt[testType] # now
           /\ tests' = [runSmartTests(tests, TestDisks, testType, TestInterval(testType),
                                      now, outcome)
                            EXCEPT !.runs = @ + 1, !.runLog = Append(@, testType),
                                   !.ranAt[testType] = now]
    /\ UNCHANGED <<now, schedVars, notifVars, cmdVars, retryVars, othersOfAgent_tests>>

NextSmartTests ==
    \/ TestClock
    \/ LaunchSmartTests
    \/ RunSmartTestsScheduler

SpecSmartTests == InitSmartTests /\ [][NextSmartTests]_vars

\* ------------------------------------------------- actions (ZFS, scrubs)
InitScrub ==
    /\ now = ScrubEpoch
    /\ InitScheduleVars
    /\ cfg = DefaultNotifierConfig
    /\ InitNotifierVars
    /\ svc = DefaultCollectors
    /\ InitCommandVars
    /\ InitRetryVars
    /\ InitStoreVars

ScrubClock ==
    /\ now < LastScrubClock
    /\ now' = now + Minute
    /\ UNCHANGED <<schedVars, notifVars, cmdVars, retryVars, storeVars>>

\* pollAndStoreSchedules with a successful poll that holds a schedule of the scrubs
PollScrubSchedule ==
    \E schedules \in {r \in LoopPollResponses : r[1].task_type = "ZFS_SCRUB"} :
        /\ cloud_schedules' = StoreSchedules(cloud_schedules, schedules, now)
        /\ UNCHANGED <<now, effReturn, notifVars, cmdVars, retryVars, storeVars>>

\* ZfsCollector.Collect: collectPoolStatus of the pool tank; a failed zpool
\* status leaves the table alone
ZfsCollect ==
    /\ \E status \in StatusInputs(now) \cup {NoRead} :
           IF status = NoRead THEN UNCHANGED zfs_pools
           ELSE LET info == parseScrubInfo(status)
                IN  zfs_pools' = UpsertPool(zfs_pools, "tank", "ONLINE",
                                            info.lastScrubTime, info.lastScrubErrors)
    /\ UNCHANGED <<now, schedVars, notifVars, cmdVars, retryVars, poolVars, applied,
                   pruneVars, ackApi, evaluated, restOfAgent_zfs_pools>>

\* Start launches the scrub loop for a positive zfs_scrub_interval
LaunchScrubScheduler ==
    /\ scrubber = Idle
    /\ \E configInterval \in ScrubConfigIntervals :
           /\ configInterval > 0
           /\ scrubber' = [pc |-> "running", configInterval |-> configInterval,
                           interval |-> configInterval, nextTick |-> now,
                           runs |-> 0, triggered |-> <<>>]
    /\ UNCHANGED <<now, schedVars, notifVars, cmdVars, retryVars, othersOfAgent_scrubber>>

\* one turn of the scrub loop, at its start or at a tick: runLoopWithSchedule
\* re-arms its ticker if the effective interval changed (a period that is not
\* positive panics), then runZfsScrubScheduler runs for the pools of ListPools
\* (tank, once collected): zpool scrub starts the scrub or fails
RunZfsScrubScheduler ==
    /\ scrubber # Idle
    /\ scrubber.pc = "running"
    /\ scrubber.runs < MaxScrubRuns
    /\ now >= scrubber.nextTick
    /\ LET found == GetScheduleForTask(cloud_schedules, "ZFS_SCRUB") IN
       \E cloudSchedule \in (IF found = {} THEN {Nil} ELSE found) :
           LET effectiveInterval ==
                   getEffectiveInterval(cloudSchedule, scrubber.configInterval)
               lastScrub == GetLastScrubTime(zfs_pools, "tank")
               listed == \E r \in zfs_pools : r.name = "tank"
               trigger == listed /\ shouldRun(cloudSchedule, lastScrub, now, effectiveInterval)
               turned == [scrubber EXCEPT !.runs = @ + 1, !.interval = effectiveInterval,
                                          !.nextTick = now + effectiveInterval]
           IN  IF effectiveInterval # scrubber.interval /\ effectiveInterval <= 0
               THEN /\ scrubber' = [scrubber EXCEPT !.pc = "panic"]
                    /\ UNCHANGED zfs_scrub_history
               ELSE \E started \in (IF trigger THEN BOOLEAN ELSE {FALSE}) :
                    IF started
                    THEN /\ zfs_scrub_history' =
                                AddScrubHistory(zfs_scrub_history, "tank", now)
                         /\ scrubber' = [turned EXCEPT !.triggered = Append(@,
                                [pool |-> "tank", at |-> now,
                                 recorded |-> (CHOOSE r \in zfs_pools :
                                                   r.name = "tank").last_scrub_time])]
                    ELSE /\ UNCHANGED zfs_scrub_history
                         /\ scrubber' = turned
    /\ UNCHANGED <<now, schedVars, notifVars, cmdVars, retryVars, poolVars, applied,
                   smart_snapshots, nvme_snapshots, disks, prune, ackApi, evaluated,
                   restOfAgent_scrubber>>

NextScrub ==
    \/ ScrubClock
    \/ PollScrubSchedule
    \/ ZfsCollect
    \/ LaunchScrubScheduler
    \/ RunZfsScrubScheduler

SpecScrub == InitScrub /\ [][NextScrub]_vars

\* ------------------------------------------- actions (concurrent Collect)
InitCollect == InitSchedule

CollectClock ==
    /\ now < MaxCollectClock
    /\ now' = now + Second
    /\ UNCHANGED <<schedVars, notifVars, cmdVars, retryVars, storeVars>>

\* Start has launched the collection loops and the command processor
LaunchCollect ==
    /\ collecting = Idle
    /\ collecting' = [pc |-> "running",
                      workers |-> [g \in CollectGoroutines |->
                                      [pc |-> "idle", kind |-> "smart", rest |-> <<>>,
                                       ts |-> 0, calls |-> 0]],
                      inserted |-> <<>>]
    /\ UNCHANGED <<now, schedVars, notifVars, cmdVars, retryVars, othersOfAgent_collecting>>

\* a goroutine calls Collect with the listed disks: a tick of its loop, or a
\* collect_smart or collect_nvme command received from the queue
CollectCall(g) ==
    /\ collecting # Idle
    /\ collecting.workers[g].pc = "idle"
    /\ collecting.workers[g].calls < MaxCollectCalls
    /\ \E kind \in CollectKinds :
           LET left == Remaining(kind, ListedDisks)
           IN  collecting' =
                   [collecting EXCEPT
                       !.workers[g] = [pc |-> IF left = <<>> THEN "idle" ELSE "runCommand",
                                       kind |-> kind, rest |-> left, ts |-> 0,
                                       calls |-> @.calls + 1]]
    /\ UNCHANGED <<now, schedVars, notifVars, cmdVars, retryVars, othersOfAgent_collecting>>

\* collectDisk up to the snapshot's Timestamp: runCommand returns; on an error
\* the disk is left out, otherwise time.Now().Unix() is taken
CollectRunCommand(g) ==
    /\ collecting # Idle
    /\ collecting.workers[g].pc = "runCommand"
    /\ \E failed \in BOOLEAN :
           collecting' =
               [collecting EXCEPT
                   !.workers[g] = IF failed THEN NextDisk(@)
                                  ELSE [@ EXCEPT !.pc = "stamped", !.ts = now]]
    /\ UNCHANGED <<now, schedVars, notifVars, cmdVars, retryVars, othersOfAgent_collecting>>

\* the rest of collectDisk: the output is parsed and AddSmartSnapshot or
\* AddNvmeSnapshot inserts the row, or fails
CollectStore(g) ==
    /\ collecting # Idle
    /\ collecting.workers[g].pc = "stamped"
    /\ \E failed \in BOOLEAN :
           LET w == collecting.workers[g]
               row == [kind |-> w.kind, disk_id |-> Head(w.rest).ID, timestamp |-> w.ts,
                       by |-> g]
           IN  collecting' =
                   [collecting EXCEPT
                       !.workers[g] = NextDisk(@),
                       !.inserted = IF failed THEN @ ELSE Append(@, row)]
    /\ UNCHANGED <<now, schedVars, notifVars, cmdVars, retryVars, othersOfAgent_collecting>>

NextCollect ==
    \/ CollectClock
    \/ LaunchCollect
    \/ \E g \in CollectGoroutines : CollectCall(g)
    \/ \E g \in CollectGoroutines : CollectRunCommand(g)
    \/ \E g \in CollectGoroutines : CollectStore(g)

SpecCollect == InitCollect /\ [][NextCollect]_vars

\* ------------------------------------- actions (evaluation beside a collector)
InitReading == InitSchedule

ReadClock ==
    /\ now < MaxReadClock
    /\ now' = now + Second
    /\ UNCHANGED <<schedVars, notifVars, cmdVars, retryVars, storeVars>>

\* the store is open; a collection loop or the command processor collects while
\* another loop's dispatchHealth evaluates
OpenSnapshots ==
    /\ reading = Idle
    /\ reading' = [pc |-> "open", table |-> <<>>, evalPc |-> "idle", disk |-> "sda",
                   snap |-> NoSnapshot, history |-> <<>>, rowsAtLatest |-> 0,
                   rowsAtHistory |-> 0]
    /\ UNCHANGED <<now, schedVars, notifVars, cmdVars, retryVars, othersOfAgent_reading>>

\* collectDisk of a collector inserts a snapshot of a disk, stamped now
InsertSnapshot ==
    /\ reading # Idle
    /\ Len(reading.table) < MaxSnapRows
    /\ \E d \in ReadDisks, reallocated \in {0, 1} :
           reading' = [reading EXCEPT !.table = AddSmartSnapshot(@, d, now, reallocated)]
    /\ UNCHANGED <<now, schedVars, notifVars, cmdVars, retryVars, othersOfAgent_reading>>

\* evaluateSmartDisk up to its return on a nil snapshot: LatestSmart
EvalLatest ==
    /\ reading # Idle
    /\ reading.evalPc \in {"idle", "done"}
    /\ \E d \in ReadDisks :
       \E snap \in LatestSmart(reading.table, d) :
           reading' = [reading EXCEPT
                          !.evalPc = IF snap = NoSnapshot THEN "done" ELSE "rules",
                          !.disk = d, !.snap = snap, !.history = <<>>,
                          !.rowsAtLatest = Len(reading.table),
                          !.rowsAtHistory = Len(reading.table)]
    /\ UNCHANGED <<now, schedVars, notifVars, cmdVars, retryVars, othersOfAgent_reading>>

\* the threshold rules have used snap; SmartHistory(ctx, d.ID, 2) and the
\* comparison of history[0] with history[1]
EvalHistory ==
    /\ reading # Idle
    /\ reading.evalPc = "rules"
    /\ \E history \in SmartHistory(reading.table, reading.disk) :
           reading' = [reading EXCEPT !.evalPc = "done", !.history = history,
                                      !.rowsAtHistory = Len(reading.table)]
    /\ UNCHANGED <<now, schedVars, notifVars, cmdVars, retryVars, othersOfAgent_reading>>

NextReading ==
    \/ ReadClock
    \/ OpenSnapshots
    \/ InsertSnapshot
    \/ EvalLatest
    \/ EvalHistory

SpecReading == InitReading /\ [][NextReading]_vars

\* ------------------------------------- actions (deliveries, failing store)
InitDelivery ==
    /\ now = 0
    /\ InitScheduleVars
    /\ cfg \in {c \in NotifierConfigs : c.email_enabled}
    /\ InitNotifierVars
    /\ svc = DefaultCollectors
    /\ InitCommandVars
    /\ InitRetryVars
    /\ InitStoreVars

\* Notifier.Start launches the worker
StartWorker ==
    /\ delivery = Idle
    /\ delivery' = [pc |-> "running", log |-> <<>>]
    /\ UNCHANGED <<now, schedVars, notifVars, cmdVars, retryVars, othersOfAgent_delivery>>

\* processPendingNotifications, the body of its loop for the next entry of the
\* batch, with a store whose statements can fail: GetAlert fails and the entry is
\* passed over; or the send ends in one of its ways and MarkNotificationSent or
\* MarkNotificationFailed records it, or fails and is only logged
DeliverEntryFaulty ==
    /\ delivery # Idle
    /\ entries # <<>>
    /\ LET entry == Head(entries) IN
       \E alertRead \in BOOLEAN :
           IF ~alertRead
           THEN UNCHANGED <<notification_queue, sendLog, delivery>>
           ELSE /\ Len(delivery.log) < MaxDeliveries
                /\ \E outcome \in SendOutcomes(entry.channel), marked \in BOOLEAN :
                       /\ delivery' =
                              [delivery EXCEPT
                                  !.log = Append(@, [id |-> entry.id, at |-> now,
                                                     channel |-> entry.channel,
                                                     outcome |-> outcome,
                                                     marked |-> marked])]
                       /\ IF ~marked
                          THEN UNCHANGED <<notification_queue, sendLog>>
                          ELSE IF sendErr(outcome)
                          THEN LET nextRetry == calculateNextRetry(entry.attempts, now) IN
                               /\ notification_queue' =
                                      MarkNotificationFailed(notification_queue, entry.id,
                                                             "send failed", nextRetry, now)
                               /\ sendLog' = [sendLog EXCEPT
                                                 ![entry.id] = Append(@, nextRetry - now)]
                          ELSE /\ notification_queue' =
                                      MarkNotificationSent(notification_queue, entry.id, now)
                               /\ UNCHANGED sendLog
    /\ entries' = Tail(entries)
    /\ handled' = NoAlert
    /\ UNCHANGED <<now, schedVars, cfg, alerts, lastSent, cmdVars, retryVars,
                   othersOfAgent_delivery>>

\* the run follows the queue entries of one accepted alert
SendOneAlert ==
    /\ notification_queue = <<>>
    /\ SendAlert(Len(alerts) + 1, Len(EnabledChannels(cfg)))

NextDelivery ==
    \/ AdvanceClock
    \/ SendOneAlert
    \/ StartWorker
    \/ WorkerTick
    \/ DeliverEntryFaulty

SpecDelivery == InitDelivery /\ [][NextDelivery]_vars

\* -------------------------------------- actions (the worker without end)
InitFair == InitSchedule

\* Notifier.Start with the queue filled; the SMTP server accepts no mail
StartFair ==
    /\ fair = Idle
    /\ fair' = [pc |-> "running", queue |-> FairQueue(YoungEntry), batch |-> <<>>,
                accepts |-> [email |-> FALSE, webhook |-> FALSE]]
    /\ UNCHANGED <<now, schedVars, notifVars, cmdVars, retryVars, othersOfAgent_fair>>

\* the webhook's endpoint goes up or down
WebhookTurns ==
    /\ fair # Idle
    /\ fair' = [fair EXCEPT !.accepts.webhook = ~@]
    /\ UNCHANGED <<now, schedVars, notifVars, cmdVars, retryVars, othersOfAgent_fair>>

\* time passes between two batches, up to the moment a retry is due
FairElapse ==
    /\ fair # Idle
    /\ fair.batch = <<>>
    /\ \E d \in {fair.queue[i].next_retry :
                     i \in {j \in DOMAIN fair.queue :
                               /\ fair.queue[j].status = "pending"
                               /\ fair.queue[j].next_retry # NULL
                               /\ fair.queue[j].next_retry > 0}} :
           fair' = [fair EXCEPT !.queue = Elapse(@, d)]
    /\ UNCHANGED <<now, schedVars, notifVars, cmdVars, retryVars, othersOfAgent_fair>>

\* processQueue: the ticker fires and processPendingNotifications fetches its batch
FairTick ==
    /\ fair # Idle
    /\ fair.batch = <<>>
    /\ fair' = [fair EXCEPT !.batch = OldestDue(fair.queue, BatchLimit, 0, 1)]
    /\ UNCHANGED <<now, schedVars, notifVars, cmdVars, retryVars, othersOfAgent_fair>>

\* processPendingNotifications, the body of its loop for the next entry of the
\* batch: the send succeeds if the entry's channel accepts
FairDeliver ==
    /\ fair # Idle
    /\ fair.batch # <<>>
    /\ LET entry == Head(fair.batch)
           sendOk == IF entry.channel = "email" THEN fair.accepts.email
                     ELSE fair.accepts.webhook
       IN  fair' = [fair EXCEPT
                       !.batch = Tail(@),
                       !.queue =
                           IF sendOk THEN MarkNotificationSent(@, entry.id, 0)
                           ELSE Saturate(MarkNotificationFailed(
                                             @, entry.id, "send failed",
                                             calculateNextRetry(entry.attempts, 0), 0),
                                         entry.id)]
    /\ UNCHANGED <<now, schedVars, notifVars, cmdVars, retryVars, othersOfAgent_fair>>

NextFair ==
    \/ StartFair
    \/ WebhookTurns
    \/ FairElapse
    \/ FairTick
    \/ FairDeliver

\* the worker's goroutine is scheduled, the ticker fires and time goes on
SpecFair ==
    /\ InitFair
    /\ [][NextFair]_vars
    /\ WF_vars(StartFair \/ FairTick \/ FairDeliver)
    /\ WF_vars(FairElapse)

\* ------------------------------------------- actions (command processor, fair)
\* runCommandProcessor is a goroutine of its own that blocks only in its
\* receive; processCommand's actions and its acknowledgement run under
\* timeouts, so a step of the processor that can be taken is taken
ProcessorStep == Dequeue \/ RunAction \/ Acknowledge

SpecFairCommands ==
    InitCommands /\ [][NextCommands]_vars /\ WF_vars(ProcessorStep)

\* -------------------------------------------------- actions (health dispatch)
\* the listings of the dispatches that are followed: those without an NVMe disk
DispatchListings ==
    {l \in ListingInputs : \A i \in DOMAIN l.disks : l.disks[i].Type = "hdd"}

\* dispatchHealth of a scheduler with a health provider and a notifier: Summary
\* (SummaryDisk, SummaryPool, SummaryError, SummaryReturn) on an empty alerts
\* table, then Notifier.Send of the report's alerts
InitDispatch ==
    /\ now = EvaluationTime
    /\ InitScheduleVars
    /\ cfg \in NotifierConfigs
    /\ InitNotifierVars
    /\ svc = DefaultCollectors
    /\ InitCommandVars
    /\ InitRetryVars
    /\ InitStoreTables
    /\ evaluated \in {[pc |-> "disks", cfg |-> c, disks |-> l.disks, pools |-> l.pools,
                       dh |-> <<>>, ph |-> <<>>, alerts |-> <<>>, status |-> ""] :
                          c \in HealthConfigs, l \in DispatchListings}

\* dispatchHealth after Summary returned: with an error nothing is sent; without,
\* s.notifier.Send(ctx, report.Alerts) is called; dispatch.persisted is the
\* number of rows persistAlerts has inserted
DispatchSummaryReturned ==
    /\ dispatch = Idle
    /\ evaluated.pc \in {"done", "failed"}
    /\ dispatch' = [pc |-> IF evaluated.pc = "done" THEN "send" ELSE "returned",
                    next |-> 1, persisted |-> Len(alerts), accepted |-> 0]
    /\ UNCHANGED <<now, schedVars, notifVars, cmdVars, retryVars, othersOfAgent_dispatch>>

\* Notifier.Send, the body of its loop for the next alert of the report: the
\* severity filter, the debounce, AddAlert (a failure is logged and the alert
\* passed over), EnqueueNotification per enabled channel, markSent
DispatchSend ==
    /\ dispatch.pc = "send"
    /\ dispatch.next <= Len(evaluated.alerts)
    /\ LET alert == evaluated.alerts[dispatch.next]
           key == AlertKey(alert)
           skip == \/ ~allowed(cfg.minSeverity, alert.severity)
                   \/ isDebounced(lastSent, key, alert.timestamp, cfg.debounce)
       IN  \E stored \in BOOLEAN :
               /\ handled' = [alert |-> alert]
               /\ IF skip \/ ~stored
                  THEN /\ UNCHANGED <<alerts, notification_queue, lastSent, sendLog>>
                       /\ dispatch' = [dispatch EXCEPT !.next = @ + 1]
                  ELSE LET channels == EnabledChannels(cfg)
                           alertID == Len(alerts) + 1
                       IN  /\ alerts' = AddAlert(alerts, alert)
                           /\ notification_queue' =
                                  EnqueueAll(notification_queue, alertID, channels, now)
                           /\ sendLog' = sendLog \o [k \in 1..Len(channels) |-> <<>>]
                           /\ lastSent' = markSent(lastSent, key, alert.timestamp)
                           /\ dispatch' = [dispatch EXCEPT !.next = @ + 1,
                                                           !.accepted = @ + 1]
    /\ UNCHANGED <<now, schedVars, cfg, entries, cmdVars, retryVars,
                   othersOfAgent_dispatch>>

\* Notifier.Send returns at the end of the report's alerts, and dispatchHealth
\* after it
DispatchReturn ==
    /\ dispatch.pc = "send"
    /\ dispatch.next > Len(evaluated.alerts)
    /\ dispatch' = [dispatch EXCEPT !.pc = "returned"]
    /\ UNCHANGED <<now, schedVars, notifVars, cmdVars, retryVars, othersOfAgent_dispatch>>

NextDispatch ==
    \/ SummaryDisk
    \/ SummaryPool
    \/ SummaryError
    \/ SummaryReturn
    \/ DispatchSummaryReturned
    \/ DispatchSend
    \/ DispatchReturn

SpecDispatch == InitDispatch /\ [][NextDispatch]_vars

\* ----------------------------------------- actions (schedule polls, followed)
\* the responses of the polls that are followed: no schedule (an empty list, or
\* a 404), or one
FollowedResponses == {r \in PollResponses : Len(r) <= 1}

\* pollAndStoreSchedules with a successful poll and a successful StoreSchedules;
\* polled keeps the response and its time
PollAndStore ==
    \E schedules \in FollowedResponses :
        /\ cloud_schedules' = StoreSchedules(cloud_schedules, schedules, now)
        /\ effReturn' = NoReturn
        /\ polled' = [pc |-> "stored", schedules |-> schedules, at |-> now]
        /\ UNCHANGED <<now, notifVars, cmdVars, retryVars, othersOfAgent_polled>>

NextPolls ==
    \/ ClockTick
    \/ PollAndStore
    \/ GetEffectiveInterval

SpecPolls == InitSchedule /\ [][NextPolls]_vars

\* ------------------------------------------ actions (scrub scheduler's cron)
\* runZfsScrubScheduler with an enabled CRON schedule: the call
\* NextCronTime(cloudSchedule.ScheduleValue, time.Unix(lastScrub, 0))
CronCall ==
    /\ cron = Idle
    /\ \E expr \in CronExprs, from \in CronFroms :
           cron' = [pc |-> "called", expr |-> expr, from |-> from]
    /\ UNCHANGED <<now, schedVars, notifVars, cmdVars, retryVars, othersOfAgent_cron>>

\* NextCronTime returns a time or an error, or the goroutine panics
CronReturn ==
    /\ cron.pc = "called"
    /\ LET r == NextCronTimeRun(cron.expr, cron.from)
       IN  cron' = [pc |-> "returned", expr |-> cron.expr, from |-> cron.from,
                    outcome |-> r.outcome, next |-> r.next]
    /\ UNCHANGED <<now, schedVars, notifVars, cmdVars, retryVars, othersOfAgent_cron>>

NextCron ==
    \/ CronCall
    \/ CronReturn

SpecCron == InitSchedule /\ [][NextCron]_vars

\* ================================================================= claims
Min2(a, b) == IF a < b THEN a ELSE b

\* ----------------------------------------------------------------- C1
\* the duration, in seconds, that an interval text "<N>[smhd]" of the inputs
\* denotes; negative for a text that is no interval
DenotedSeconds(v) ==
    CASE v = <<"3", "0", "s">> -> 30
      [] v = <<"2", "m">> -> 120
      [] v = <<"1", "d">> -> 86400
      [] OTHER -> 0 - 1

NewestEnabled(taskType) ==
    LET rows == {r \in cloud_schedules : r.task_type = taskType /\ r.enabled = TRUE} IN
    {r \in rows : ~ \E o \in rows : o.updated_at > r.updated_at}

\* C1 as stated: the effective interval is min(config, cloud) for a newest enabled
\* INTERVAL schedule that parses, exactly one minute for a CRON one, and the
\* configured interval when the task has no enabled schedule.
C1_AsStated ==
    effReturn.called =>
        LET newest == NewestEnabled(effReturn.taskType)
            c == effReturn.configInterval
        IN  IF newest = {} THEN effReturn.interval = c
            ELSE \E s \in newest :
                    /\ (s.schedule_type = "INTERVAL" /\ DenotedSeconds(s.schedule_value) >= 0)
                           => effReturn.interval = Min2(c, DenotedSeconds(s.schedule_value))
                    /\ s.schedule_type = "CRON" => effReturn.interval = 60

\* C1 (amended): getEffectiveInterval returns min(configInterval, cloudInterval)
\* when the newest enabled cloud schedule of the task is an INTERVAL that parses,
\* min(configInterval, 1 minute) when it is a CRON schedule, and configInterval
\* when the task has no enabled cloud schedule.
C1_EffectiveInterval ==
    effReturn.called =>
        LET newest == NewestEnabled(effReturn.taskType)
            c == effReturn.configInterval
        IN  IF newest = {} THEN effReturn.interval = c
            ELSE \E s \in newest :
                    /\ (s.schedule_type = "INTERVAL" /\ DenotedSeconds(s.schedule_value) >= 0)
                           => effReturn.interval = Min2(c, DenotedSeconds(s.schedule_value))
                    /\ s.schedule_type = "CRON" => effReturn.interval = Min2(c, 60)

\* a call for a task whose only newest enabled schedule is a CRON one, with a
\* configured interval below one minute, has returned the configured interval
C1_Witness ==
    /\ effReturn.called
    /\ effReturn.configInterval = 30
    /\ effReturn.interval = 30
    /\ \E s \in cloud_schedules :
           NewestEnabled(effReturn.taskType) = {s} /\ s.schedule_type = "CRON"

\* ----------------------------------------------------------------- C2
\* the delay the claim gives for the k-th failure
RetryDelay(k) ==
    CASE k = 1 -> 60 [] k = 2 -> 300 [] k = 3 -> 900 [] k = 4 -> 3600
      [] k = 5 -> 21600 [] OTHER -> 86400

C3_PendingOnlyDue ==
    /\ \A k \in 1..Len(entries) :
           LET q == notification_queue[entries[k].id] IN
           /\ q.status = "pending"
           /\ entries[k].status = "pending"
           /\ (q.next_retry = NULL \/ q.next_retry <= now)
    /\ \A a, b \in 1..Len(entries) :
           a < b => entries[a].created_at <= entries[b].created_at

\* the worker holds a batch while another pending entry, not yet due, was left out
C3_Witness ==
    /\ entries # <<>>
    /\ \E i \in DOMAIN notification_queue :
           /\ notification_queue[i].status = "pending"
           /\ notification_queue[i].next_retry > now
           /\ \A k \in 1..Len(entries) : entries[k].id # i

Ids(cmds) == {cmds[k].id : k \in DOMAIN cmds}
Range(seq) == {seq[k] : k \in DOMAIN seq}

\* C5: the command queue never holds more than 10 commands; a polled command
\* is dropped exactly when it meets a full queue, every polled command is
\* either queued or dropped, and the poll loop's next step is always possible.
C5_BoundedQueue ==
    /\ Len(commandQueue) <= 10
    /\ \A k \in DOMAIN dropLog : dropLog[k].queued = 10
    /\ Range(enqLog) \cup {dropLog[k].id : k \in DOMAIN dropLog} \cup Ids(pollPending)
           = 1..issued
    /\ Range(enqLog) \cap {dropLog[k].id : k \in DOMAIN dropLog} = {}
    /\ pollPending # <<>> => ENABLED EnqueueOrDrop

\* a command was dropped, the queue is full and the poll loop has more to offer
C5_Witness ==
    /\ dropLog # <<>>
    /\ Len(commandQueue) = 10
    /\ pollPending # <<>>

\* ----------------------------------------------------------------- C6
\* C6: the commands are received in the order they were enqueued, and a
\* command is received only after the previous one's action and
\* acknowledgement: at most the latest received command is unacknowledged.
C6_SerialFifo ==
    /\ enqLog = deqLog \o [k \in DOMAIN commandQueue |-> commandQueue[k].id]
    /\ IF proc = Idle
       THEN ackIds = deqLog
       ELSE /\ deqLog = Append(ackIds, proc.cmd.id)
            /\ proc.pc \in {"action", "ack"}

\* the processor is about to acknowledge its third or later command while
\* further commands wait in the queue
C6_Witness ==
    /\ Len(deqLog) >= 3
    /\ proc.pc = "ack"
    /\ Len(commandQueue) >= 2
    /\ dropLog # <<>>

\* ----------------------------------------------------------------- C7
KnownTypes == {"trigger_scrub", "collect_smart", "collect_nvme", "collect_zfs"}

ActionOf(type) ==
    CASE type = "trigger_scrub" -> "zfs.TriggerScrub"
      [] type = "collect_smart" -> "smart.Collect"
      [] type = "collect_nvme" -> "nvme.Collect"
      [] type = "collect_zfs" -> "zfs.Collect"
      [] OTHER -> "none"

\* the command's action was invoked and returned no error
ActionSucceeded(cmd, calls) ==
    /\ calls # <<>>
    /\ calls[Len(calls)].fn = ActionOf(cmd.type)
    /\ calls[Len(calls)].err = ""

ActionCalls(cmd, calls) ==
    {k \in DOMAIN calls : calls[k].fn = ActionOf(cmd.type)}

\* the command is a trigger_scrub whose params name a pool
NamesPool(cmd) ==
    cmd.type = "trigger_scrub" /\ cmd.params.raw = "object" /\ cmd.params.has_pool_name

\* what C7 asks of the step that acknowledges, given when a trigger_scrub must
\* have invoked the scrub trigger
AckStep(scrubExpected) ==
    /\ (ackIds' # ackIds) =>
           LET c == proc.cmd
               r == lastAck'.request
           IN  /\ proc.pc = "ack"
               /\ ackIds' = Append(ackIds, c.id)
               /\ deqLog[Len(ackIds')] = c.id
               /\ Len(deqLog) = Len(ackIds')
               /\ r.id = c.id
               /\ (r.success /\ ~r.has_error) <=> ActionSucceeded(c, proc.calls)
               /\ r.success \/ r.has_error
               /\ (NamesPool(c) /\ scrubExpected) =>
                      /\ Cardinality(ActionCalls(c, proc.calls)) = 1
                      /\ \A k \in ActionCalls(c, proc.calls) :
                             proc.calls[k].arg = c.params.pool_name
               /\ c.type \notin KnownTypes =>
                      /\ proc.calls = <<>>
                      /\ r.success = FALSE
                      /\ r.error = "unknown command type: " \o c.type
    /\ (proc # Idle /\ proc' = Idle) => ackIds' # ackIds
    /\ (deqLog' # deqLog) => ackIds = deqLog

\* C7 as stated: every received command is acknowledged exactly once, with its
\* id, after its action, with success and no error iff the action succeeded;
\* every trigger_scrub naming pool p invokes the scrub trigger once with p; an
\* unknown type invokes nothing and is acknowledged "unknown command type: t".
C7_AsStated == [][AckStep(TRUE)]_vars

\* C7 (amended): as stated, but a trigger_scrub naming pool p invokes the scrub
\* trigger once with p when the scheduler has a ZFS collector (without one no
\* action is invoked and the acknowledgement reports the failure).
C7_Acknowledge == [][AckStep(svc.zfs)]_vars

\* the second scrub of pool tank has succeeded and been acknowledged, after a
\* command of unknown type was acknowledged
C7_Witness ==
    /\ lastAck # NoAck
    /\ lastAck.cmd.id = 8
    /\ lastAck.cmd.type = "trigger_scrub"
    /\ lastAck.request.success
    /\ lastAck.calls = <<Call("zfs.TriggerScrub", "tank", "")>>
    /\ \E k \in DOMAIN ackIds : ackIds[k] = 2

\* ----------------------------------------------------------------- C8
\* the alert rows of a key, and the timestamp the key was last accepted with
RowsOfKey(key) == {i \in DOMAIN alerts : AlertKey(alerts[i]) = key}
LastAccepted(key) == alerts[MaxOf(RowsOfKey(key))].timestamp

Suppressed(a) ==
    /\ RowsOfKey(AlertKey(a)) # {}
    /\ a.timestamp - LastAccepted(AlertKey(a)) < cfg.debounce

\* the step neither persisted nor enqueued anything
NothingStored == alerts' = alerts /\ notification_queue' = notification_queue

\* the step persisted alert a as a new row
Persisted(a) ==
    /\ Len(alerts') = Len(alerts) + 1
    /\ SubSeq(alerts', 1, Len(alerts)) = alerts
    /\ AlertKey(alerts'[Len(alerts')]) = AlertKey(a)
    /\ alerts'[Len(alerts')].timestamp = a.timestamp

NewQueueRows ==
    {i \in DOMAIN notification_queue' : i > Len(notification_queue)}

SeverityRank(s) == CASE s = "info" -> 1 [] s = "warning" -> 2 [] s = "critical" -> 3

C9_RetryPolicy ==
    /\ Len(httpLog) <= 3
    /\ \A k \in DOMAIN httpLog :
           /\ httpLog[k].waited = (CASE k = 1 -> 0 [] k = 2 -> 1 [] OTHER -> 2)
           /\ httpLog[k].outcome = "2xx" =>
                  /\ k = Len(httpLog)
                  /\ snd # Idle => (snd.pc = "done" /\ snd.result = "")
    /\ (snd.pc = "done" /\ httpLog # <<>> /\ httpLog[Len(httpLog)].outcome # "2xx") =>
           IF Len(httpLog) < 3
           THEN snd.result = "context canceled"
           ELSE snd.result = (IF httpLog[3].outcome = "status"
                              THEN "unexpected status" ELSE "send request")
    /\ (snd.pc = "done" /\ snd.result = "") =>
           (httpLog # <<>> /\ httpLog[Len(httpLog)].outcome = "2xx")

\* a call has returned the error of its third attempt, after a non-2xx response,
\* a network error and another non-2xx response
C9_Witness ==
    /\ snd.pc = "done"
    /\ Len(httpLog) = 3
    /\ httpLog[1].outcome = "status"
    /\ httpLog[2].outcome = "neterr"
    /\ httpLog[3].outcome = "status"
    /\ waits = <<1, 2>>
    /\ snd.result = "unexpected status"

\* ----------------------------------------------------------------- C10
\* C10: when the context is cancelled while the call waits between attempts,
\* the call's next step returns the cancellation error, and no HTTP attempt
\* is made.
C10_CancelDuringWait ==
    [][ (snd.pc = "wait" /\ ctxDone.done) =>
            /\ httpLog' = httpLog
            /\ snd' # snd => (snd'.pc = "done" /\ snd'.result = "context canceled")
      ]_vars

\* the context was cancelled during the wait before the third attempt, and the
\* call has returned the cancellation error after its two attempts
C10_Witness ==
    /\ snd.pc = "done"
    /\ snd.result = "context canceled"
    /\ ctxDone.at = "wait"
    /\ Len(httpLog) = 2
    /\ waits = <<1>>

\* ----------------------------------------------------------------- C11
\* C11 as stated: a reader of a pool's device mapping sees the complete mapping
\* from before a replacement or the complete new one, never an empty or partial
\* one; and after a replacement in which an insert failed the previous mapping
\* is still in place.
C11_AsStated ==
    /\ observed # NoRead => observed.devices \in {observed.before, observed.target}
    /\ (upsert.pc = "returned" /\ upsert.failed) =>
           GetPoolDevices(zfs_pool_devices, upsert.pool) = upsert.before

\* a reader has seen a mapping that is neither the previous nor the new one,
\* during a replacement of a non-empty mapping
C11_Witness ==
    /\ observed # NoRead
    /\ observed.before # {}
    /\ observed.devices \notin {observed.before, observed.target}

\* ----------------------------------------------------------------- C12
\* a stored schedule without the time it was stored at
ScheduleContent(r) ==
    [id |-> r.id, task_type |-> r.task_type, schedule_type |-> r.schedule_type,
     schedule_value |-> r.schedule_value, enabled |-> r.enabled]

Contents(table) == {ScheduleContent(r) : r \in table}

EnabledFor(table, taskType) == {r \in table : r.task_type = taskType /\ r.enabled}

\* the list has been applied a second time
AppliedTwice == applied.pc = "done" /\ applied.round = 2

\* the stored schedules are as the first application left them, one row per id
SameSchedules ==
    /\ Contents(cloud_schedules) = Contents(applied.once)
    /\ \A r, o \in cloud_schedules : r.id = o.id => r = o

\* C12 as stated: after applying a list twice the stored schedules (by id) and
\* the result of GetScheduleForTask for every task type are as after applying
\* it once, and there is at most one row per schedule id.
C12_AsStated ==
    AppliedTwice =>
        /\ SameSchedules
        /\ \A t \in TaskTypes :
               Contents(GetScheduleForTask(cloud_schedules, t))
                   = Contents(GetScheduleForTask(applied.once, t))

\* C12 (amended): after applying a list twice the stored schedules (by id) are
\* as after applying it once, with at most one row per id, and so is the result
\* of GetScheduleForTask for every task type that has at most one enabled
\* schedule stored.
C12_Idempotent ==
    AppliedTwice =>
        /\ SameSchedules
        /\ \A t \in TaskTypes :
               Cardinality(EnabledFor(applied.once, t)) <= 1 =>
                   Contents(GetScheduleForTask(cloud_schedules, t))
                       = Contents(GetScheduleForTask(applied.once, t))

\* a list of two schedules was applied a second time, a second later, to a
\* table that holds an enabled and a disabled schedule
C12_Witness ==
    /\ AppliedTwice
    /\ Len(applied.schedules) = 2
    /\ \E r \in cloud_schedules : r.updated_at = 1
    /\ \E r \in applied.once : r.updated_at = 0 /\ r.enabled
    /\ \E r \in cloud_schedules : ~r.enabled
    /\ \E t \in TaskTypes : Cardinality(EnabledFor(applied.once, t)) = 1

\* C13: a statement of PruneOldSnapshots(N), N > 0, leaves in its table no snapshot
\* older than now - N days, and keeps every snapshot newer than that cutoff
C13_PruneSnapshots ==
    [][/\ (prune.pc = "smart" /\ prune'.pc = "nvme" /\ prune.days > 0) =>
            LET cutoff == now - prune.days * Day
            IN  /\ \A r \in smart_snapshots' : ~(r.timestamp < cutoff)
                /\ \A r \in smart_snapshots :
                       r.timestamp > cutoff => r \in smart_snapshots'
       /\ (prune.pc = "nvme" /\ prune'.pc = "returned" /\ ~prune'.err /\ prune.days > 0) =>
            LET cutoff == now - prune.days * Day
            IN  /\ \A r \in nvme_snapshots' : ~(r.timestamp < cutoff)
                /\ \A r \in nvme_snapshots :
                       r.timestamp > cutoff => r \in nvme_snapshots']_vars

\* PruneOldSnapshots(1) has returned nil after removing a snapshot of each table and
\* keeping a newer one of each
C13_Witness ==
    /\ prune.pc = "returned"
    /\ ~prune.err
    /\ prune.days = 1
    /\ \E r \in smart_snapshots : <<"smart", r>> \notin prune.removed
    /\ \E r \in nvme_snapshots : <<"nvme", r>> \notin prune.removed
    /\ \E r \in prune.removed : r[1] = "smart"
    /\ \E r \in prune.removed : r[1] = "nvme"

\* C14: the daily prune task leaves no alert older than 90 days and does not touch
\* the disks and the scrub history
C14_AsStated ==
    [][(prune.pc \in {"smart", "nvme"} /\ prune.task /\ prune' # prune) =>
            /\ disks' = disks
            /\ zfs_scrub_history' = zfs_scrub_history
            /\ (prune'.pc = "returned" /\ ~prune'.err) =>
                   \A i \in DOMAIN alerts' : ~(alerts'[i].timestamp < now - 90 * Day)]_vars

\* the daily prune task has returned nil and an alert older than 90 days is stored
C14_Witness ==
    /\ prune.pc = "returned"
    /\ prune.task
    /\ ~prune.err
    /\ disks # {}
    /\ zfs_scrub_history # {}
    /\ \E i \in DOMAIN alerts : alerts[i].timestamp < now - 90 * Day

\* C15: GetAlert(id) of an added alert returns the timestamp and the fields AddAlert
\* was given, with acknowledged false until AcknowledgeAlert(id) succeeded and true
\* ever after
C15_AlertRoundTrip ==
    \A id \in DOMAIN ackApi.added :
        LET g == GetAlert(alerts, id)
            a == ackApi.added[id]
        IN  /\ g.found
            /\ g.timestamp = a.timestamp
            /\ g.severity = a.severity
            /\ g.source_type = a.source_type
            /\ g.source_id = a.source_id
            /\ g.subject = a.subject
            /\ g.acknowledged = (id \in ackApi.acked)

\* an alert with a timestamp of 59 seconds was acknowledged, a later one was not, and
\* a further acknowledgement of the first has been answered
C15_Witness ==
    /\ Len(alerts) = 2
    /\ ackApi.added[1].timestamp = 59 * Second
    /\ ackApi.acked = {1}
    /\ ackApi.resp.pc = "done"
    /\ ackApi.resp.method = "POST"
    /\ ackApi.resp.id = 1
    /\ ackApi.resp.before[1].acknowledged
    /\ ~GetAlert(alerts, 2).acknowledged

\* C16: acknowledging an id that has no row fails with "alert not found" and leaves
\* the alerts as they were; the handler answers 404 for exactly that error
C16_NotFound ==
    (ackApi.resp.pc = "done" /\ ackApi.resp.method = "POST") =>
        /\ (ackApi.resp.id \notin DOMAIN ackApi.resp.before
                /\ ackApi.resp.err # "database is locked") =>
               /\ ackApi.resp.err = "alert not found"
               /\ ackApi.resp.after = ackApi.resp.before
        /\ ackApi.resp.err = "alert not found" =>
               ackApi.resp.id \notin DOMAIN ackApi.resp.before
        /\ (ackApi.resp.status = 404) <=> (ackApi.resp.err = "alert not found")

\* an acknowledgement of an id without a row was answered 404 while alerts are stored
C16_Witness ==
    /\ ackApi.resp.pc = "done"
    /\ ackApi.resp.status = 404
    /\ ackApi.resp.id = 2
    /\ Len(alerts) = 1

\* how many queue entries Send is to create for a channel name under configuration c
EntriesDue(c, channel) ==
    (IF c.email_enabled /\ channel = "email" THEN 1 ELSE 0)
    + Cardinality({k \in DOMAIN c.webhooks :
                       /\ c.webhooks[k].url # ""
                       /\ channel = "webhook:" \o c.webhooks[k].name})

EmittedSeverities == {evaluated.alerts[i].severity : i \in DOMAIN evaluated.alerts}

\* C18: the report's status is critical if an alert of the evaluation is critical,
\* warning if none is critical and one is a warning, and ok otherwise
C18_CompositeStatus ==
    evaluated.pc = "done" =>
        evaluated.status = IF "critical" \in EmittedSeverities THEN "critical"
                           ELSE IF "warning" \in EmittedSeverities THEN "warning"
                           ELSE "ok"

\* a report is critical on account of its pool although the alerts of its disk,
\* which come first, are warnings
C18_Witness ==
    /\ evaluated.pc = "done"
    /\ evaluated.status = "critical"
    /\ Len(evaluated.alerts) >= 2
    /\ evaluated.alerts[1].severity = "warning"
    /\ evaluated.alerts[1].source_type = "disk"
    /\ evaluated.alerts[Len(evaluated.alerts)].source_type = "pool"

\* C19 as stated: a pool whose state is neither empty nor ONLINE is reported with
\* status critical, score 0 and the issue pool_state_<state>, whatever its scrub
\* time, its scrub errors and the configured scrub interval
C19_AsStated ==
    evaluated.pc \in {"disks", "done"} =>
        \A k \in DOMAIN evaluated.ph :
            LET h == evaluated.ph[k]
            IN  (h.State # "" /\ h.State # "ONLINE") =>
                    /\ h.Status = "critical"
                    /\ h.HealthScore = 0
                    /\ \E i \in DOMAIN h.Issues : h.Issues[i] = "pool_state_" \o h.State

\* a DEGRADED pool whose scrub is overdue is reported with status warning and a
\* negative score
C19_Witness ==
    /\ evaluated.pc = "done"
    /\ \E k \in DOMAIN evaluated.ph :
           /\ evaluated.ph[k].State = "DEGRADED"
           /\ evaluated.ph[k].Status = "warning"
           /\ evaluated.ph[k].HealthScore < 0
           /\ evaluated.ph[k].Issues = <<"pool_state_DEGRADED", "scrub_overdue">>

\* C20: a disk's score lies in [0, 100], and a disk with a score below 60 has the
\* status warning or critical
C20_DiskScore ==
    evaluated.pc \in {"disks", "done"} =>
        \A k \in DOMAIN evaluated.dh :
            /\ evaluated.dh[k].HealthScore >= 0
            /\ evaluated.dh[k].HealthScore <= 100
            /\ evaluated.dh[k].HealthScore < 60 =>
                   evaluated.dh[k].Status \in {"warning", "critical"}

\* a disk whose deductions exceed its score is reported with score 0, and the report
\* has been returned
C20_Witness ==
    /\ evaluated.pc = "done"
    /\ \E k \in DOMAIN evaluated.dh :
           /\ evaluated.dh[k].Type = "hdd"
           /\ evaluated.dh[k].HealthScore = 0
           /\ evaluated.dh[k].Issues[1] = "smart_failed"
           /\ Len(evaluated.dh[k].Issues) >= 3

\* a discovery pass has scanned /sys/block
Scanned == discovery.pc = "ready" /\ discovery.pass # NoPass /\ ~discovery.pass.err

\* the pass handed the scanned disk k to UpsertDisk
Upserted(k) ==
    \E j \in DOMAIN discovery.pass.upserted :
        discovery.pass.upserted[j] = discovery.pass.scanned[k]

\* C21 as stated: with sda, nvme0n1 and loop0 in /sys/block, no include pattern and
\* the exclude list ["nvme*"], a pass upserts exactly one disk, the one of sda
C21_AsStated ==
    ( /\ Scanned
      /\ {discovery.pass.sysBlock[k].name : k \in DOMAIN discovery.pass.sysBlock}
             = {Sda, Nvme0n1, Loop0}
      /\ discovery.cfg.IncludeDevices = <<>>
      /\ discovery.cfg.ExcludeDevices = <<NvmeStar>> ) =>
        /\ Len(discovery.pass.upserted) = 1
        /\ discovery.pass.upserted[1].Name = DevDir \o Sda

\* in that setting the pass has upserted the disks of nvme0n1 and of sda
C21_Witness ==
    /\ Scanned
    /\ Len(discovery.pass.sysBlock) = 3
    /\ discovery.cfg.IncludeDevices = <<>>
    /\ discovery.cfg.ExcludeDevices = <<NvmeStar>>
    /\ Len(discovery.pass.upserted) = 2
    /\ discovery.pass.upserted[1].Name = DevDir \o Nvme0n1
    /\ discovery.pass.upserted[1].Type = "nvme"
    /\ discovery.pass.upserted[2].Name = DevDir \o Sda
    /\ discovery.pass.upserted[2].Type = "hdd"

\* C22: a scanned disk is upserted exactly if no exclude pattern matches its id or
\* its name and, with a non-empty include list, an include pattern matches its id
\* or its name
C22_ExcludePrecedence ==
    Scanned =>
        \A k \in DOMAIN discovery.pass.scanned :
            LET disk == discovery.pass.scanned[k]
                hit(patterns) == \E i \in DOMAIN patterns :
                                     \/ Match(patterns[i], disk.ID)
                                     \/ Match(patterns[i], disk.Name)
            IN  Upserted(k) <=>
                    /\ ~hit(discovery.cfg.ExcludeDevices)
                    /\ discovery.cfg.IncludeDevices # <<>> => hit(discovery.cfg.IncludeDevices)

\* a pass has left out a disk that an include pattern and an exclude pattern match,
\* and upserted another that only an include pattern matches
C22_Witness ==
    /\ Scanned
    /\ discovery.cfg.IncludeDevices = <<DevDir \o <<"s", "d", "?">>>>
    /\ discovery.cfg.ExcludeDevices = <<ByIdDir \o <<"a", "t", "a", "-", "*">>>>
    /\ Len(discovery.pass.scanned) = 2
    /\ discovery.pass.scanned[1].Name = DevDir \o Sda
    /\ ~Upserted(1)
    /\ Upserted(2)

\* ----------------------------------------------------------------- C23
\* queue rows exist for the alert row i
Enqueued(i) == \E q \in DOMAIN notification_queue : notification_queue[q].alert_id = i

\* C23 as stated: whatever the interleaving of the loops' Send calls, no two alerts
\* of one key whose timestamps are less than the debounce window apart are both
\* persisted and enqueued
C23_AsStated ==
    \A i, j \in DOMAIN alerts :
        ( /\ i < j
          /\ AlertKey(alerts[i]) = AlertKey(alerts[j])
          /\ alerts[j].timestamp - alerts[i].timestamp < cfg.debounce
          /\ alerts[i].timestamp - alerts[j].timestamp < cfg.debounce ) =>
            ~(Enqueued(i) /\ Enqueued(j))

\* two loops have each stored and enqueued an alert of one key and one timestamp,
\* neither having reached markSent when the other asked isDebounced
C23_Witness ==
    /\ cfg.debounce > 0
    /\ Len(alerts) = 2
    /\ AlertKey(alerts[1]) = AlertKey(alerts[2])
    /\ alerts[1].timestamp = alerts[2].timestamp
    /\ Enqueued(1) /\ Enqueued(2)
    /\ \E l1, l2 \in DispatchLoops :
           /\ l1 # l2
           /\ senders[l1].pc = "mark"
           /\ senders[l2].pc = "mark"

\* ----------------------------------------------------------------- C24
\* C24 as stated: whatever the configured interval and the stored schedule, a
\* schedule-aware loop arms its ticker only with positive periods and never
\* reaches the panic of a ticker period that is not positive
C24_AsStated ==
    loop # Idle => /\ loop.pc # "panic"
                   /\ \A period \in loop.armed : period > 0

\* the ZFS status loop, configured with interval 0 and with no schedule stored,
\* has panicked in its first turn on a ticker period of 0
C24_Witness ==
    /\ loop # Idle
    /\ loop.taskType = "ZFS_STATUS"
    /\ loop.configInterval = 0
    /\ cloud_schedules = {}
    /\ loop.pc = "panic"
    /\ loop.armed = {Hour, 0}
    /\ loop.lastRun = NULL

\* ----------------------------------------------------------------- C25
\* C25 as stated: under an enabled CRON schedule a collection loop executes its
\* body at a wake only if the expression's next fire time after the previous
\* execution has been reached
C25_AsStated ==
    ( /\ loop # Idle
      /\ loop.pc = "wait"
      /\ loop.taskType \in AlwaysStarted
      /\ loop.cron # Nil
      /\ loop.prevRun # NULL ) =>
        LET fire == NextCronTime(loop.cron.expr, loop.prevRun)
        IN  fire.ok /\ fire.next <= loop.lastRun

\* the SMART collection loop, under a schedule that fires at minute 2 of every
\* hour, has collected at its start and again at the wake one minute later
C25_Witness ==
    /\ loop # Idle
    /\ loop.pc = "wait"
    /\ loop.taskType = "SMART_COLLECT"
    /\ loop.configInterval = 6 * Hour
    /\ loop.cron = [expr |-> CronAtMinuteTwo]
    /\ loop.interval = CronCheckInterval
    /\ loop.prevRun = 0
    /\ loop.lastRun = Minute
    /\ NextCronTime(loop.cron.expr, loop.prevRun).next = 2 * Minute

\* ----------------------------------------------------------------- C26
\* C26 as stated: after the cancellation of the root context no loop starts
\* another body and the processor handles no further command, and Stop has
\* returned only if the worker has exited
C26_AsStated ==
    Running => /\ ~shutdown.lateBody
               /\ ~shutdown.lateCommand
               /\ shutdown.stopPc = "returned" => shutdown.workerPc = "exited"

\* with a tick waiting in the ticker's channel and a command waiting in the queue
\* when the context was cancelled, the loop has started another body and the
\* processor has handled the command
C26_Witness ==
    /\ Running
    /\ shutdown.cancelled
    /\ shutdown.lateBody
    /\ shutdown.loopPc = "fn"
    /\ shutdown.lateCommand
    /\ shutdown.pending = 0

\* ----------------------------------------------------------------- C27
\* the statement named label was executed, and before any loop was launched
DoneBeforeLaunch(label) ==
    \E i \in DOMAIN start.log :
        /\ start.log[i] = label
        /\ \A j \in 1..i : start.log[j] # "go loops"

NextRunOf(r) ==
    {q \in DOMAIN tests.runLog :
        /\ q > r
        /\ tests.runLog[q] = tests.runLog[r]
        /\ \A k \in (r + 1)..(q - 1) : tests.runLog[k] # tests.runLog[r]}

C29_AsStated ==
    scrubber # Idle =>
        \A i, j \in DOMAIN scrubber.triggered :
            (i < j /\ scrubber.triggered[i].pool = scrubber.triggered[j].pool) =>
                /\ scrubber.triggered[j].recorded # NULL
                /\ scrubber.triggered[j].recorded >= scrubber.triggered[i].at

\* with the interval of 30 days and a CRON schedule for minute 2 of the hour, the
\* scheduler has triggered a scrub of tank at two wakes a minute apart, at minutes
\* 14 and 15, the pool's recorded last scrub being the same at both and a minute
\* old at the first; two open entries are stored
C29_Witness ==
    /\ scrubber # Idle
    /\ scrubber.configInterval = 30 * Day
    /\ \E r \in cloud_schedules :
           r.task_type = "ZFS_SCRUB" /\ r.enabled /\ r.schedule_value = CronAtMinuteTwo
    /\ Len(scrubber.triggered) = 2
    /\ Calendar(scrubber.triggered[1].at).minute = 14
    /\ scrubber.triggered[1].recorded = scrubber.triggered[1].at - Minute
    /\ scrubber.triggered[2].recorded = scrubber.triggered[1].recorded
    /\ scrubber.triggered[2].at = scrubber.triggered[1].at + Minute
    /\ Cardinality({r \in zfs_scrub_history :
                       r.pool_name = "tank" /\ r.end_time = 0
                       /\ r.notes = "Scheduled scrub"}) = 2

\* ----------------------------------------------------------------- C30
\* C30 as stated: a collection pass never turns a pool's last scrub time from a
\* time into null or into an earlier time
C30_AsStated ==
    [][ \A old \in zfs_pools :
            old.last_scrub_time # NULL =>
                \A new \in zfs_pools' :
                    new.name = old.name =>
                        /\ new.last_scrub_time # NULL
                        /\ new.last_scrub_time >= old.last_scrub_time ]_vars

\* the pool tank, whose last scrub time was recorded when the scheduler triggered
\* a scrub, has a null last scrub time after a later pass
C30_Witness ==
    /\ \E r \in zfs_pools : r.name = "tank" /\ r.last_scrub_time = NULL
    /\ scrubber # Idle
    /\ \E i \in DOMAIN scrubber.triggered :
           /\ scrubber.triggered[i].recorded # NULL
           /\ scrubber.triggered[i].at < now

\* ----------------------------------------------------------------- C31
\* a goroutine is inside collectDisk for the disk
CollectingDisk(g, id) ==
    /\ collecting.workers[g].pc \in {"runCommand", "stamped"}
    /\ Head(collecting.workers[g].rest).ID = id

\* C31 as stated: the snapshots of a disk are inserted in non-decreasing order
\* of their timestamps, and no two collections of one disk overlap
C31_AsStated ==
    collecting # Idle =>
        /\ \A i, j \in DOMAIN collecting.inserted :
               (i < j /\ collecting.inserted[i].disk_id = collecting.inserted[j].disk_id) =>
                   collecting.inserted[i].timestamp <= collecting.inserted[j].timestamp
        /\ \A id \in {"sda", "nvme0n1"} :
               ~(CollectingDisk("loop", id) /\ CollectingDisk("processor", id))

\* the command processor has inserted a snapshot of sda with a later timestamp
\* before the loop inserted the one it had stamped earlier
C31_Witness ==
    /\ collecting # Idle
    /\ \E i, j \in DOMAIN collecting.inserted :
           /\ i < j
           /\ collecting.inserted[i].disk_id = "sda"
           /\ collecting.inserted[j].disk_id = "sda"
           /\ collecting.inserted[i].by = "processor"
           /\ collecting.inserted[j].by = "loop"
           /\ collecting.inserted[i].timestamp > collecting.inserted[j].timestamp

\* ----------------------------------------------------------------- C32
\* C32 as stated: in a finished evaluation that compared two history rows, the
\* row the history comparison took as current is the row the threshold rules used
C32_AsStated ==
    (reading # Idle /\ reading.evalPc = "done" /\ Len(reading.history) >= 2) =>
        reading.history[1] = reading.snap

\* an evaluation of sda read its latest row, a collector then inserted a newer row
\* of sda, and the history read took the new row as current and the row of the
\* threshold rules as previous
C32_Witness ==
    /\ reading # Idle
    /\ reading.evalPc = "done"
    /\ reading.disk = "sda"
    /\ Len(reading.history) = 2
    /\ reading.history[2] = reading.snap
    /\ reading.history[1].timestamp > reading.snap.timestamp
    /\ reading.history[1].rowid > reading.rowsAtLatest
    /\ reading.rowsAtHistory = reading.rowsAtLatest + 1

\* ----------------------------------------------------------------- C33
\* C33 as stated: after a send of a queue entry that reached its channel, the
\* worker makes no further send of that entry
C33_AsStated ==
    delivery # Idle =>
        \A i, j \in DOMAIN delivery.log :
            (i < j /\ delivery.log[i].id = delivery.log[j].id) =>
                ~Reached(delivery.log[i].outcome)

\* a send returned nil, MarkNotificationSent failed, and the worker sent the same
\* entry again at a later tick
C33_Witness ==
    /\ delivery # Idle
    /\ \E i, j \in DOMAIN delivery.log :
           /\ i < j
           /\ delivery.log[i].id = delivery.log[j].id
           /\ delivery.log[i].outcome = "delivered"
           /\ ~delivery.log[i].marked
           /\ delivery.log[j].at > delivery.log[i].at
           /\ Reached(delivery.log[j].outcome)

\* an email send hit its deadline, the mail went out afterwards, the failure was
\* recorded, and the worker sent the entry again when its retry was due
C33_WitnessEmail ==
    /\ delivery # Idle
    /\ \E i, j \in DOMAIN delivery.log :
           /\ i < j
           /\ delivery.log[i].id = delivery.log[j].id
           /\ delivery.log[i].channel = "email"
           /\ delivery.log[i].outcome = "deadline_delivered"
           /\ delivery.log[i].marked
           /\ delivery.log[j].at = delivery.log[i].at + backoffs[1]

\* ----------------------------------------------------------------- C34
\* with the one worker, and whether or not the store's statements fail: no step
\* removes a queue row; a row that is sent stays sent and keeps its attempts and
\* its sent_at; and no step lowers a row's attempts
C34_SentIsFinal ==
    [][ /\ Len(notification_queue') >= Len(notification_queue)
        /\ \A i \in DOMAIN notification_queue :
               /\ notification_queue'[i].attempts >= notification_queue[i].attempts
               /\ notification_queue[i].status = "sent" =>
                      /\ notification_queue'[i].status = "sent"
                      /\ notification_queue'[i].attempts = notification_queue[i].attempts
                      /\ notification_queue'[i].sent_at = notification_queue[i].sent_at ]_vars

\* an entry was sent, and after that the worker recorded the failed send of
\* another entry
C34_Witness ==
    /\ delivery # Idle
    /\ \E i \in DOMAIN notification_queue :
           /\ notification_queue[i].status = "sent"
           /\ notification_queue[i].sent_at # NULL
           /\ \E j, k \in DOMAIN delivery.log :
                  /\ j < k
                  /\ delivery.log[j].id = i
                  /\ delivery.log[j].outcome = "delivered"
                  /\ delivery.log[j].marked
                  /\ delivery.log[k].id # i
                  /\ delivery.log[k].marked
                  /\ sendErr(delivery.log[k].outcome)

C35_NoTerminalFailure ==
    fair # Idle => \A i \in DOMAIN fair.queue : fair.queue[i].status \in {"pending", "sent"}

\* ----------------------------------------------------------------- C36
DroppedIds == {dropLog[k].id : k \in DOMAIN dropLog}

\* C36: every command accepted into the queue is eventually received, run and
\* acknowledged; every command a poll returned and the loop has handled was
\* either accepted or dropped, never both, and dropped only at a moment the
\* queue held QueueCap commands; a dropped command is never in the queue, never
\* received and never acknowledged.
C36_AcceptedIsProcessed ==
    /\ \A i \in 1..MaxCmds :
           (i \in Range(enqLog)) ~> (i \in Range(deqLog) /\ i \in Range(ackIds))
    /\ [](/\ Range(enqLog) \cup DroppedIds \cup Ids(pollPending) = 1..issued
          /\ Range(enqLog) \cap DroppedIds = {}
          /\ \A k \in DOMAIN dropLog : dropLog[k].queued = QueueCap
          /\ Range(enqLog) = Ids(commandQueue) \cup Range(deqLog)
          /\ DroppedIds \cap (Ids(commandQueue) \cup Range(deqLog) \cup Range(ackIds)) = {}
          /\ Range(ackIds) \subseteq Range(deqLog))

\* a command was dropped at a full queue, and a command accepted after that
\* drop has been received and acknowledged
C36_Witness ==
    /\ dropLog # <<>>
    /\ \E i \in Range(ackIds) : i > dropLog[1].id /\ i \in Range(enqLog)

\* ----------------------------------------------------------------- C37
\* C37: when a health dispatch has returned, the alerts table holds exactly one
\* row per alert of the evaluation's report (the table was empty before).
C37_AsStated ==
    (dispatch.pc = "returned" /\ evaluated.pc = "done")
        => Len(alerts) = Len(evaluated.alerts)

\* a dispatch has returned whose report has alerts, all of which persistAlerts
\* stored and all of which the notifier accepted and stored again
C37_Witness ==
    /\ dispatch.pc = "returned"
    /\ evaluated.pc = "done"
    /\ Len(evaluated.alerts) >= 2
    /\ dispatch.persisted = Len(evaluated.alerts)
    /\ dispatch.accepted = Len(evaluated.alerts)
    /\ Len(alerts) = 2 * Len(evaluated.alerts)

\* ----------------------------------------------------------------- C38
\* the intervals getEffectiveInterval can return for a task when the table of
\* schedules holds the rows of one poll response and no other
IntervalsOf(response, t, taskType, configInterval) ==
    LET found == GetScheduleForTask(StoreSchedules({}, response, t), taskType)
    IN  {getEffectiveInterval(c, configInterval) :
            c \in (IF found = {} THEN {Nil} ELSE found)}

\* C38: after a successful schedule poll, the interval getEffectiveInterval
\* returns for a task is the one the schedules of that poll's response give,
\* whatever earlier polls returned.
C38_AsStated ==
    (effReturn.called /\ polled # Idle)
        => effReturn.interval \in IntervalsOf(polled.schedules, polled.at,
                                              effReturn.taskType, effReturn.configInterval)

\* the latest poll returned no schedule, and a loop with a configured interval
\* of an hour was still given the shorter interval of a schedule an earlier
\* poll had stored
C38_Witness ==
    /\ polled # Idle
    /\ polled.schedules = <<>>
    /\ cloud_schedules # {}
    /\ effReturn.called
    /\ effReturn.configInterval = Hour
    /\ effReturn.interval < Hour

\* ----------------------------------------------------------------- C39
\* the alerts of the evaluation that name an entity
AlertsFor(sourceType, sourceID) ==
    {evaluated.alerts[k] : k \in {j \in DOMAIN evaluated.alerts :
                                     /\ evaluated.alerts[j].source_type = sourceType
                                     /\ evaluated.alerts[j].source_id = sourceID}}

\* a status covers a severity: critical covers all, warning covers warning
Covers(status, severity) == SeverityOrder(status) >= SeverityOrder(severity)

\* C39: in the report of an evaluation, the status of every disk and of every
\* pool is at least as severe as each alert the evaluation emitted for it.
C39_AsStated ==
    /\ \A i \in DOMAIN evaluated.dh :
           \A a \in AlertsFor("disk", evaluated.dh[i].ID) :
               Covers(evaluated.dh[i].Status, a.severity)
    /\ \A i \in DOMAIN evaluated.ph :
           \A a \in AlertsFor("pool", evaluated.ph[i].Name) :
               Covers(evaluated.ph[i].Status, a.severity)

\* a pool that is not ONLINE and whose scrub is overdue: the first rule set its
\* status to critical and emitted a critical alert, the second set it to warning
C39_Witness ==
    /\ evaluated.pc = "done"
    /\ Len(evaluated.ph) = 1
    /\ evaluated.ph[1].Status = "warning"
    /\ evaluated.ph[1].HealthScore = 0 - 20
    /\ \E a \in AlertsFor("pool", evaluated.ph[1].Name) : a.severity = "critical"
    /\ \E a \in AlertsFor("pool", evaluated.ph[1].Name) : a.subject = "Scrub overdue"

\* ----------------------------------------------------------------- C40
\* the five fields of the expression match the moment t
CronMatches(expr, t) ==
    LET parts == Fields(expr)
        at == Calendar(t)
    IN  /\ matchesCronField(Itoa(at.minute), parts[1])
        /\ matchesCronField(Itoa(at.hour), parts[2])
        /\ matchesCronField(Itoa(at.day), parts[3])
        /\ matchesCronField(Itoa(at.month), parts[4])
        /\ \/ matchesCronField(Itoa(at.weekday), parts[5])
           \/ (at.weekday = 0 /\ matchesCronField(<<"7">>, parts[5]))

\* C40: a call of NextCronTime ends with an error or with a time after from
\* that matches the five fields of the expression; it never panics.
C40_AsStated ==
    cron.pc = "returned" =>
        \/ cron.outcome = "error"
        \/ /\ cron.outcome = "time"
           /\ cron.next > cron.from
           /\ CronMatches(cron.expr, cron.next)

\* the call with a step of 0 in the hour field has panicked at the first
\* minute that matches the minute field
C40_Witness ==
    /\ cron.pc = "returned"
    /\ cron.outcome = "panic"
    /\ Fields(cron.expr)[2] = <<"*", "/", "0">>
    /\ cron.next = 7 * Minute

====
